---- MODULE Spec2Model ----
(***************************************************************************)
(* ds (metaist/ds): the task resolution and execution engine.              *)
(*                                                                         *)
(* Text is a sequence of one-character strings, so that splitting,         *)
(* stripping, glob matching and argument interpolation are computed the    *)
(* way the code computes them.  A Task is a record with the fields that    *)
(* the dataclass compares; origin, origin_key, help and verbatim are the   *)
(* same for every task of one configuration file and are left out.         *)
(***************************************************************************)
EXTENDS Integers, Sequences, FiniteSets, TLC

\* ------------------------------------------------------------------------
\* symbols.py
\* ------------------------------------------------------------------------

ARG_PREFIX == "$"
ARG_REST == "@"
GLOB_EXCLUDE == "!"
GLOB_DELIMITER == ";"
TASK_COMPOSITE == <<"#", "c", "o", "m", "p", "o", "s", "i", "t", "e">>
TASK_KEEP_GOING == "+"

\* starts(haystack, needle) for a one-character needle: (found, rest)
starts(haystack, needle) ==
    IF Len(haystack) > 0 /\ haystack[1] = needle
    THEN <<TRUE, SubSeq(haystack, 2, Len(haystack))>>
    ELSE <<FALSE, haystack>>

\* ------------------------------------------------------------------------
\* str and shlex primitives used by the engine
\* ------------------------------------------------------------------------

IsSpace(c) == c = " "

RECURSIVE lstrip(_)
lstrip(s) ==
    IF Len(s) > 0 /\ IsSpace(s[1]) THEN lstrip(Tail(s)) ELSE s

RECURSIVE rstrip(_)
rstrip(s) ==
    IF Len(s) > 0 /\ IsSpace(s[Len(s)])
    THEN rstrip(SubSeq(s, 1, Len(s) - 1))
    ELSE s

strip(s) == rstrip(lstrip(s))

\* str.split(delimiter): empty fields are kept
RECURSIVE str_split(_, _, _)
str_split(s, d, cur) ==
    IF s = <<>> THEN <<cur>>
    ELSE IF s[1] = d THEN <<cur>> \o str_split(Tail(s), d, <<>>)
    ELSE str_split(Tail(s), d, Append(cur, s[1]))

\* shlex.split on text without quotes or escapes: whitespace-separated words
RECURSIVE split_from(_, _)
split_from(s, cur) ==
    IF s = <<>> THEN (IF cur = <<>> THEN <<>> ELSE <<cur>>)
    ELSE IF IsSpace(s[1])
         THEN (IF cur = <<>> THEN <<>> ELSE <<cur>>) \o split_from(Tail(s), <<>>)
         ELSE split_from(Tail(s), Append(cur, s[1]))

split(s) == split_from(s, <<>>)

\* " ".join(words)
RECURSIVE join(_)
join(words) ==
    IF words = <<>> THEN <<>>
    ELSE IF Len(words) = 1 THEN words[1]
    ELSE words[1] \o <<" ">> \o join(Tail(words))

\* {**a, **b}
Merge(a, b) ==
    [k \in (DOMAIN a) \cup (DOMAIN b) |-> IF k \in DOMAIN b THEN b[k] ELSE a[k]]

\* ------------------------------------------------------------------------
\* fnmatch and glob_names (searchers.py)
\* ------------------------------------------------------------------------

\* index of the "]" closing the class opened at p[j], 0 when it is not closed
RECURSIVE ClassScan(_, _)
ClassScan(p, k) ==
    IF k > Len(p) THEN 0
    ELSE IF p[k] = "]" THEN k
    ELSE ClassScan(p, k + 1)

ClassEnd(p, j) ==
    LET k1 == IF j + 1 <= Len(p) /\ p[j + 1] = "!" THEN j + 2 ELSE j + 1
        k2 == IF k1 <= Len(p) /\ p[k1] = "]" THEN k1 + 1 ELSE k1
    IN  ClassScan(p, k2)

\* does character c belong to the class p[j] = "[" ... p[e] = "]"
InClass(c, p, j, e) ==
    LET neg == p[j + 1] = "!"
        lo == IF neg THEN j + 2 ELSE j + 1
        hit == \E k \in lo..(e - 1) : p[k] = c
    IN  IF neg THEN ~hit ELSE hit

RECURSIVE MatchFrom(_, _, _, _)
MatchFrom(n, i, p, j) ==
    IF j > Len(p) THEN i > Len(n)
    ELSE IF p[j] = "*"
         THEN MatchFrom(n, i, p, j + 1) \/ (i <= Len(n) /\ MatchFrom(n, i + 1, p, j))
    ELSE IF p[j] = "?"
         THEN i <= Len(n) /\ MatchFrom(n, i + 1, p, j + 1)
    ELSE IF p[j] = "[" /\ ClassEnd(p, j) > 0
         THEN i <= Len(n) /\ InClass(n[i], p, j, ClassEnd(p, j))
              /\ MatchFrom(n, i + 1, p, ClassEnd(p, j) + 1)
    ELSE i <= Len(n) /\ n[i] = p[j] /\ MatchFrom(n, i + 1, p, j + 1)

fnmatch(name, pattern) == MatchFrom(name, 1, pattern, 1)

\* a glob_names for which a name once included stays included
GlobIncludeAny(name, patterns, include) ==
    \E k \in DOMAIN patterns :
        patterns[k][1] # GLOB_EXCLUDE /\ fnmatch(name, patterns[k])

\* result[name] after the patterns have been applied in order
RECURSIVE GlobInclude(_, _, _)
GlobInclude(name, patterns, include) ==
    IF patterns = <<>> THEN include
    ELSE LET st == starts(patterns[1], GLOB_EXCLUDE)
         IN  GlobInclude(name, Tail(patterns),
                         IF fnmatch(name, st[2]) THEN ~st[1] ELSE include)

IsIncluded(name) == name[2]

\* the keys of {name: False for name in names}: each name once, in the
\* order of its first occurrence
RECURSIVE DictKeys(_, _)
DictKeys(names, seen) ==
    IF names = <<>> THEN <<>>
    ELSE IF names[1] \in seen THEN DictKeys(Tail(names), seen)
    ELSE <<names[1]>> \o DictKeys(Tail(names), seen \cup {names[1]})

glob_names(names, patterns) ==
    LET keys == DictKeys(names, {})
        result == [k \in DOMAIN keys |->
                     <<keys[k], GlobInclude(keys[k], patterns, FALSE)>>]
        kept == SelectSeq(result, IsIncluded)
    IN  [k \in DOMAIN kept |-> kept[k][1]]

\* ------------------------------------------------------------------------
\* interpolate_args (env.py)
\* ------------------------------------------------------------------------

IsDigit(c) == c \in {"0", "1", "2", "3", "4", "5", "6", "7", "8", "9"}

DigitVal(c) ==
    CASE c = "0" -> 0 [] c = "1" -> 1 [] c = "2" -> 2 [] c = "3" -> 3
      [] c = "4" -> 4 [] c = "5" -> 5 [] c = "6" -> 6 [] c = "7" -> 7
      [] c = "8" -> 8 [] OTHER -> 9

\* int(digits)
RECURSIVE ToInt(_, _)
ToInt(ds, acc) ==
    IF ds = <<>> THEN acc ELSE ToInt(Tail(ds), acc * 10 + DigitVal(ds[1]))

\* number of digits of s starting at position i (greedy \d+)
RECURSIVE DigitRun(_, _)
DigitRun(s, i) ==
    IF i <= Len(s) /\ IsDigit(s[i]) THEN 1 + DigitRun(s, i + 1) ELSE 0

\* position of the first occurrence of c in s at or after i, 0 when none
RECURSIVE FindChar(_, _, _)
FindChar(s, c, i) ==
    IF i > Len(s) THEN 0
    ELSE IF s[i] = c THEN i
    ELSE FindChar(s, c, i + 1)

NoMatch == [len |-> 0, arg |-> <<>>, hasDefault |-> FALSE, default |-> <<>>]

\* RE_ARGS anchored at position i of s:
\*   \$(@|\d+)  |  \$\{(@|\d+)(?::-(.*?))?\}
MatchArgs(s, i) ==
    IF i + 1 > Len(s) \/ s[i] # ARG_PREFIX THEN NoMatch
    ELSE IF s[i + 1] = ARG_REST
         THEN [len |-> 2, arg |-> <<ARG_REST>>, hasDefault |-> FALSE, default |-> <<>>]
    ELSE IF IsDigit(s[i + 1])
         THEN LET d == DigitRun(s, i + 1)
              IN  [len |-> 1 + d, arg |-> SubSeq(s, i + 1, i + d),
                   hasDefault |-> FALSE, default |-> <<>>]
    ELSE IF s[i + 1] = "{"
         THEN LET n == IF i + 2 <= Len(s) /\ s[i + 2] = ARG_REST THEN 1
                       ELSE DigitRun(s, i + 2)
                  q == i + 2 + n
                  r == FindChar(s, "}", q + 2)
              IN  IF n = 0 \/ q > Len(s) THEN NoMatch
                  ELSE IF s[q] = "}"
                       THEN [len |-> q - i + 1, arg |-> SubSeq(s, i + 2, q - 1),
                             hasDefault |-> FALSE, default |-> <<>>]
                  ELSE IF q + 1 <= Len(s) /\ s[q] = ":" /\ s[q + 1] = "-" /\ r > 0
                       THEN [len |-> r - i + 1, arg |-> SubSeq(s, i + 2, q - 1),
                             hasDefault |-> TRUE, default |-> SubSeq(s, q + 2, r - 1)]
                  ELSE NoMatch
    ELSE NoMatch

\* an interpolate_args that never appends the arguments
HasPlaceholderAlways(s, i) == TRUE

\* RE_ARGS.search(cmd)
RECURSIVE HasPlaceholder(_, _)
HasPlaceholder(s, i) ==
    IF i > Len(s) THEN FALSE
    ELSE MatchArgs(s, i).len > 0 \/ HasPlaceholder(s, i + 1)

\* str.replace(old, new)
RECURSIVE str_replace(_, _, _)
str_replace(s, old, new) ==
    IF Len(s) < Len(old) THEN s
    ELSE IF SubSeq(s, 1, Len(old)) = old
         THEN new \o str_replace(SubSeq(s, Len(old) + 1, Len(s)), old, new)
    ELSE <<s[1]>> \o str_replace(Tail(s), old, new)

\* a _replace_arg for which no argument is ever consumed
UnusedAll(args, not_done) == args

\* the arguments not yet consumed, in order
RECURSIVE Unused(_, _)
Unused(args, not_done) ==
    IF args = <<>> THEN <<>>
    ELSE (IF not_done[1] THEN <<args[1]>> ELSE <<>>)
         \o Unused(Tail(args), Tail(not_done))

\* a _replace_arg that takes the default when the joined arguments are empty
RestTextOrDefault(unused, default) ==
    IF join(unused) # <<>> THEN join(unused) ELSE default

\* _replace_arg: " ".join(unused) if unused else default
RestText(unused, default) ==
    IF unused # <<>> THEN join(unused) ELSE default

\* _replace_arg: the replacement of one match, and the pool after it
replace_arg(m, args, not_done) ==
    IF m.arg = <<ARG_REST>>
    THEN [ok |-> TRUE, not_done |-> not_done,
          text |-> RestText(Unused(args, not_done), m.default)]
    ELSE LET idx == ToInt(m.arg, 0) - 1
             \* a negative index counts from the end of the list
             at == IF idx < 0 THEN Len(args) + idx + 1 ELSE idx + 1
         IN  IF idx >= Len(args)
             THEN [ok |-> m.hasDefault, not_done |-> not_done, text |-> m.default]
             ELSE IF at < 1
                  THEN [ok |-> FALSE, not_done |-> not_done, text |-> <<>>]
             ELSE [ok |-> TRUE, not_done |-> [not_done EXCEPT ![at] = FALSE],
                   text |-> args[at]]

\* RE_ARGS.sub(_replace_arg, cmd), left to right
RECURSIVE SubArgs(_, _, _, _, _)
SubArgs(s, i, args, not_done, out) ==
    IF i > Len(s) THEN [ok |-> TRUE, text |-> out]
    ELSE LET m == MatchArgs(s, i)
             r == replace_arg(m, args, not_done)
         IN  IF m.len = 0 THEN SubArgs(s, i + 1, args, not_done, Append(out, s[i]))
             ELSE IF ~r.ok THEN [ok |-> FALSE, text |-> <<>>]
             ELSE SubArgs(s, i + m.len, args, r.not_done, out \o r.text)

\* ok is FALSE when IndexError is raised
interpolate_args(cmd, args) ==
    LET c1 == str_replace(cmd, <<"{", "a", "r", "g", "s", "}">>, <<"$", "{", "@", "}">>)
        c2 == str_replace(c1, <<"{", "a", "r", "g", "s", ":">>,
                          <<"$", "{", "@", ":", "-">>)
        c3 == IF HasPlaceholder(c2, 1) THEN c2
              ELSE c2 \o <<" ", ARG_PREFIX, ARG_REST>>
        r == SubArgs(c3, 1, args, [k \in DOMAIN args |-> TRUE], <<>>)
    IN  [ok |-> r.ok, text |-> rstrip(r.text)]


\* ------------------------------------------------------------------------
\* Task (tasks.py) and the inputs of a run
\* ------------------------------------------------------------------------

\* Task(): the dataclass defaults.  cwd and env_file are "" for None; an
\* env_file is "ok" when the file exists and "missing" when it does not.
Task ==
    [name |-> <<>>, cmd |-> <<>>, depends |-> <<>>, code |-> 0, args |-> <<>>,
     cwd |-> "", env |-> <<>>, _env |-> <<>>, env_file |-> "",
     keep_going |-> FALSE, parallel |-> FALSE]

\* parse_task of a string: the "+" prefix sets keep_going
ParseStr(text) ==
    LET st == starts(text, TASK_KEEP_GOING)
    IN  [Task EXCEPT !.keep_going = st[1], !.cmd = st[2]]

\* parse_task of a list: every item becomes a composite step
ParseList(items) ==
    [Task EXCEPT !.depends = [k \in DOMAIN items |->
                                [items[k] EXCEPT !.name = TASK_COMPOSITE]]]

\* a table with both "composite" and "cmd": the steps, then the command
WithCmd(task, text) == [task EXCEPT !.cmd = ParseStr(text).cmd,
                                    !.keep_going = ParseStr(text).keep_going]

\* parse_tasks: the task of one entry of the scripts section
Named(name, task) == [task EXCEPT !.name = name]

\* read_env of the text of an existing env-file
EnvFromFile == "K" :> "file"

\* one-word texts the scenarios are built from
tA == <<"a">>
tB == <<"b">>
tX == <<"x">>
tN == <<"n">>

\* the shell: the words that name a program it can run; any other leading
\* word makes it report "command not found"
Runnable == {tA, tX}

CommandNotFound == 127

\* the codes a program that runs may exit with
ExitCodes == {0, 3}

\* the codes the shell may return for a command text
Outcomes(text) ==
    IF split(text) # <<>> /\ split(text)[1] \in Runnable
    THEN ExitCodes
    ELSE {CommandNotFound}

\* texts of composite steps
StepTexts ==
    {tA, tB, tX, tN, <<"*">>, <<"b", ";", "a">>, <<"*", ";", "!", "b">>,
     <<"b", " ", "y">>, <<"+", "x">>, <<"+", "b">>, <<"+", "n">>, <<>>}

FirstTexts == {tX, <<"+", "x">>, tB, <<"+", "b">>, tA}
SecondTexts == {tX, tB}

BodiesA ==
    {ParseStr(t) : t \in {tX, <<"+", "x">>, tN, tA}}
    \cup {ParseList(<<ParseStr(t)>>) : t \in StepTexts}
    \cup {ParseList(<<ParseList(<<ParseStr(tB)>>)>>)}
    \cup {ParseList(<<ParseStr(t1), ParseStr(t2)>>) :
            t1 \in FirstTexts, t2 \in SecondTexts}
    \cup {WithCmd(ParseList(<<ParseStr(t)>>), tX) : t \in {tX, tB, <<"+", "x">>}}

BodiesB ==
    {ParseStr(t) : t \in {tX, tN}}
    \cup {ParseList(<<ParseStr(t)>>) : t \in {tA, tB, tX}}
    \cup {ParseList(<<ParseStr(t), ParseStr(tX)>>) : t \in {tX, tB}}

\* Tasks mappings over the names a and b, in either insertion order
TasksAB ==
    {<<Named(tA, a)>> : a \in BodiesA}
    \cup {<<Named(tA, a), Named(tB, b)>> : a \in BodiesA, b \in BodiesB}
    \cup {<<Named(tB, b), Named(tA, a)>> : a \in BodiesA, b \in BodiesB}

\* the tasks given on the command line
RootsAB ==
    {<<tA>>, <<<<"+", "a">>>>, <<tN>>, <<<<"*">>>>, <<tA, tB>>}

\* names of the hooks of task a
PreNames == {<<"p", "r", "e", "a">>, <<"p", "r", "e", "_", "a">>}
PostNames == {<<"p", "o", "s", "t", "a">>, <<"p", "o", "s", "t", "-", "a">>}

RECURSIVE SetToSeq(_)
SetToSeq(S) ==
    IF S = {} THEN <<>>
    ELSE LET x == CHOOSE y \in S : TRUE
         IN  <<x>> \o SetToSeq(S \ {x})

TasksHooks ==
    {<<Named(tA, a)>> \o SetToSeq({Named(n, h) : n \in ns}) :
        a \in {ParseStr(tX), ParseStr(<<"+", "x">>), ParseList(<<ParseStr(tX)>>)},
        h \in {ParseStr(tX), ParseList(<<ParseStr(tA)>>)},
        ns \in SUBSET (PreNames \cup PostNames)}

TasksEnvFile ==
    {<<Named(tA, [ParseStr(tX) EXCEPT !.env_file = e]),
       Named(<<"p", "r", "e", "a">>, ParseStr(tX))>> : e \in {"ok", "missing"}}

\* a composite step with a trailing token, and a task with declared args
TasksArgs ==
    {<<Named(tA, ParseList(<<ParseStr(<<"b", " ", "y">>)>>)), Named(tB, b)>> :
        b \in {ParseStr(tX), [ParseStr(tX) EXCEPT !.args = <<<<"w">>>>]}}

\* tasks with a cwd and an env of their own: a runs b, b runs a command
TasksScope ==
    {<<Named(tA, [ParseList(<<ParseStr(tB)>>) EXCEPT !.cwd = ca, !.env = ea]),
       Named(tB, [ParseStr(tX) EXCEPT !.cwd = cb, !.env = eb])>> :
        ca \in {"", "A"}, ea \in {<<>>, "K" :> "a"},
        cb \in {"", "B"}, eb \in {<<>>, "K" :> "b"}}

\* Args.parse: the root task is a composite of the tasks on the command line
RootTask(words, parallel) ==
    [ParseList([k \in DOMAIN words |-> ParseStr(words[k])])
       EXCEPT !.parallel = parallel]

\* the mappings run with --parallel
TasksParallel ==
    LET as == {ParseStr(t) : t \in {tX, <<"+", "x">>, tN}}
              \cup {ParseList(<<ParseStr(t)>>) : t \in {tB, tN, <<"+", "n">>, <<"*">>}}
              \cup {ParseList(<<ParseStr(t1), ParseStr(t2)>>) :
                      t1 \in {tX, tB}, t2 \in SecondTexts}
              \cup {WithCmd(ParseList(<<ParseStr(tX)>>), tX)}
        bs == {ParseStr(tX), ParseStr(tN), ParseList(<<ParseStr(tX), ParseStr(tX)>>)}
    IN  {<<Named(tA, a)>> : a \in as}
        \cup {<<Named(tA, a), Named(tB, b)>> : a \in as, b \in bs}

Scenarios ==
    {[tasks |-> t, task |-> RootTask(r, FALSE), dry_run |-> dry,
      pre |-> FALSE, post |-> FALSE] :
        t \in TasksAB, r \in RootsAB, dry \in BOOLEAN}
    \cup {[tasks |-> t, task |-> RootTask(r, TRUE), dry_run |-> dry,
           pre |-> FALSE, post |-> FALSE] :
        t \in TasksParallel, r \in {<<tA>>, <<tN>>, <<tA, tB>>}, dry \in BOOLEAN}
    \cup {[tasks |-> t, task |-> RootTask(<<tA>>, par), dry_run |-> FALSE,
           pre |-> pre, post |-> post] :
        t \in TasksHooks, par \in BOOLEAN, pre \in BOOLEAN, post \in BOOLEAN}
    \cup {[tasks |-> t,
           task |-> [RootTask(<<tX, tA>>, par) EXCEPT !.env_file = re],
           dry_run |-> dry, pre |-> pre, post |-> FALSE] :
        t \in TasksEnvFile, par \in BOOLEAN, dry \in BOOLEAN,
        re \in {"", "missing"}, pre \in BOOLEAN}
    \cup {[tasks |-> t, task |-> RootTask(<<<<"a", " ", "z">>>>, FALSE),
           dry_run |-> dry, pre |-> FALSE, post |-> FALSE] :
        t \in TasksArgs, dry \in BOOLEAN}
    \cup {[tasks |-> t,
           task |-> [RootTask(<<tA>>, FALSE) EXCEPT !.cwd = rc, !.env = re],
           dry_run |-> FALSE, pre |-> FALSE, post |-> FALSE] :
        t \in TasksScope, rc \in {"", "R"}, re \in {<<>>, "K" :> "r"}}


\* ------------------------------------------------------------------------
\* State
\* ------------------------------------------------------------------------

VARIABLES
    args,       \* Args: dry_run, pre, post and the root task
    tasks,      \* Tasks: the tasks in insertion order, names unique
    status,     \* "start", "running", "returned", "finished", "exited", "raised",
                \* "interrupted"
    exit,       \* how the process ended: code and cause
    stack,      \* the active calls of Runner.run, innermost last
    procs,      \* every child process spawned so far, in spawn order
    processes,  \* Runner.processes: indices into procs
    atexit,     \* how many times Runner.cleanup was registered with atexit
    retval,     \* the value Runner.run returned to the driver
    cc,         \* the outcome of check_cycles
    cleanup,    \* Runner.cleanup: where it stands and the calls it has made
    cwd,        \* the working directory of the process
    ENV,        \* os.environ: the environment variables of the process
    temps,      \* the TempEnv objects that have been entered and not exited
    call        \* a call of a function of the library: inputs and result

vars == <<args, tasks, status, exit, stack, procs, processes, atexit, retval, cc,
          cleanup, cwd, ENV, temps, call>>

\* the depth at which the interpreter raises RecursionError
MaxDepth == 7

Top == stack[Len(stack)]

\* tasks.keys()
Keys == [k \in DOMAIN tasks |-> tasks[k].name]

\* position of tasks.get(name), 0 for None
Lookup(name) ==
    IF \E k \in DOMAIN tasks : tasks[k].name = name
    THEN CHOOSE k \in DOMAIN tasks : tasks[k].name = name
    ELSE 0

\* a call Runner.run(task, override) that has not started; disp and hooked
\* list the tasks the call has dispatched to and the hooks it has run, got
\* the codes its nested calls have returned
\* ref is where the task of the call is stored: <<k>> for tasks[k], followed
\* by the positions in depends for a step beneath it; <<>> for a task that is
\* not stored in Tasks (the root task of the command line and its steps)
Frame(task, override, path, ref) ==
    [task |-> task, override |-> override, resolved |-> override, pc |-> "start",
     i |-> 0, others |-> <<>>, j |-> 0, ran |-> FALSE, code |-> 0, ret |-> 0,
     path |-> path, disp |-> <<>>, shells |-> 0, ref |-> ref, hooked |-> <<>>,
     got |-> <<>>]

\* ------------------------------------------------------------------------
\* check_cycles (tasks.py)
\* ------------------------------------------------------------------------

\* split(dep.cmd)[0] raises IndexError for a dependency without a command
CyclesIndexError(ts) ==
    \E k \in DOMAIN ts : \E d \in DOMAIN ts[k].depends :
        split(ts[k].depends[d].cmd) = <<>>

\* graph[name]: the leading tokens of the dependencies, the own name removed
Edges(task) ==
    {split(task.depends[d].cmd)[1] : d \in DOMAIN task.depends} \ {task.name}

Graph(ts) == [n \in {ts[k].name : k \in DOMAIN ts} |->
                Edges(ts[CHOOSE k \in DOMAIN ts : ts[k].name = n])]

Nodes(g) == (DOMAIN g) \cup UNION {g[n] : n \in DOMAIN g}

Succ(g, n) == IF n \in DOMAIN g THEN g[n] ELSE {}

\* the nodes reachable from the set S in one or more steps
RECURSIVE ReachFrom(_, _, _)
ReachFrom(g, S, seen) ==
    LET next == UNION {Succ(g, n) : n \in S}
    IN  IF next \subseteq seen THEN seen
        ELSE ReachFrom(g, next \ seen, seen \cup next)

HasCycle(g) == \E n \in Nodes(g) : n \in ReachFrom(g, {n}, {})

\* graphlib.CycleError: the first and the last node are the same and each
\* node is an immediate predecessor (an element of graph[n]) of the next
IsCycle(g, c) ==
    /\ Len(c) >= 2
    /\ c[1] = c[Len(c)]
    /\ \A k \in 1..(Len(c) - 1) : c[k] \in Succ(g, c[k + 1])
    /\ \A k, q \in 1..(Len(c) - 1) : k # q => c[k] # c[q]

\* orders of all nodes in which every predecessor comes before its node
IsStaticOrder(g, o) ==
    /\ Len(o) = Cardinality(Nodes(g))
    /\ {o[k] : k \in DOMAIN o} = Nodes(g)
    /\ \A k \in DOMAIN o : \A m \in Succ(g, o[k]) :
          \E q \in 1..(k - 1) : o[q] = m

\* "IndexError", "CycleError" or "order"
CheckCyclesKind(ts) ==
    IF CyclesIndexError(ts) THEN "IndexError"
    ELSE IF HasCycle(Graph(ts)) THEN "CycleError"
    ELSE "order"


\* the outcomes of check_cycles: graphlib walks sets, whose order is not fixed
check_cycles(ts) ==
    LET g == Graph(ts)
        walks == UNION {[1..n -> Nodes(g)] : n \in 2..(Cardinality(Nodes(g)) + 1)}
    IN  IF CheckCyclesKind(ts) = "IndexError"
        THEN {[kind |-> "IndexError", value |-> <<>>]}
        ELSE IF CheckCyclesKind(ts) = "CycleError"
        THEN {[kind |-> "CycleError", value |-> c] : c \in {w \in walks : IsCycle(g, w)}}
        ELSE {[kind |-> "order", value |-> o] :
                o \in {w \in [1..Cardinality(Nodes(g)) -> Nodes(g)] : IsStaticOrder(g, w)}}

\* ------------------------------------------------------------------------
\* Runner (runner.py)
\* ------------------------------------------------------------------------

\* a merge that forgets the keep_going of the caller
KeepGoingOwn(task, override) == task.keep_going

\* Runner.run: keep_going=override.keep_going or task.keep_going
KeepGoing(task, override) == override.keep_going \/ task.keep_going

\* a merge in which the cwd of the task itself comes first
ResolveCwdOwn(task, override) ==
    IF task.cwd # "" THEN task.cwd ELSE override.cwd

\* Runner.run: cwd=override.cwd or task.cwd
ResolveCwd(task, override) ==
    IF override.cwd # "" THEN override.cwd ELSE task.cwd

\* the merged task of Runner.run
Resolve(task, override) ==
    LET env_from_file == IF task.env_file = "" THEN <<>> ELSE EnvFromFile
    IN  [override EXCEPT
           !.args = task.args \o override.args,
           !.cwd = ResolveCwd(task, override),
           !.env = Merge(override.env, task.env),
           !._env = Merge(Merge(Merge(override._env, override.env), env_from_file),
                          task.env),
           !.env_file = IF override.env_file # "" THEN override.env_file
                        ELSE task.env_file,
           !.keep_going = KeepGoing(task, override),
           !.parallel = override.parallel \/ task.parallel]

\* run_pre_post: the names looked up, in order
HookNames(pre_post, name) ==
    <<pre_post \o name, pre_post \o <<"_">> \o name, pre_post \o <<"-">> \o name>>

HookEnabled(pre_post) == IF pre_post = <<"p", "r", "e">> THEN args.pre ELSE args.post

\* run_pre_post: position in tasks of the hook to run, 0 when there is none
FindHook(task, pre_post) ==
    LET checks == HookNames(pre_post, task.name)
        found == {k \in DOMAIN checks : Lookup(checks[k]) # 0}
    IN  IF task.name = <<>> \/ task.name = TASK_COMPOSITE \/ ~HookEnabled(pre_post)
        THEN 0
        ELSE IF found = {} THEN 0
        ELSE Lookup(checks[CHOOSE k \in found : \A q \in found : k <= q])

\* list membership with dataclass equality
InDepends(task, other) == \E d \in DOMAIN other.depends : other.depends[d] = task

\* a dispatch without the guard on the dependencies of the matched task
CanDispatchUnguarded(other, task) == other # task

\* run_composite: whether the step is handed to the matched task
CanDispatch(other, task) == other # task /\ ~InDepends(task, other)

\* run_composite: glob_names(self.tasks.keys(), cmd.split(GLOB_DELIMITER))
Others(task) ==
    glob_names(Keys, str_split(split(task.cmd)[1], GLOB_DELIMITER, <<>>))

\* a run_in_shell that never waits for the child
WaitsForChildNever(resolved) == FALSE

\* run_in_shell: whether the child is waited for and its code is examined
WaitsForChild(resolved) == ~resolved.parallel

\* run_in_shell: whether the code of the child ends the process
IsFatal(code, resolved) == code # 0 /\ ~resolved.keep_going

\* an exit that reports a failure without its code
ExitCodeOne(resolved) == 1

\* sys.exit(resolved.code)
ExitCode(resolved) == resolved.code

\* a merge that writes into the task itself instead of a copy
ResolvedInPlace(ref) == ref

\* dataclasses.replace returns a new object: the object that `resolved` names
\* is stored nowhere in Tasks (<<>>), whatever the place of the task
ResolvedObject(ref) == <<>>

RECURSIVE WriteTask(_, _, _)
\* the task at the place ref beneath a stored task, with the fields that
\* Runner assigns (cmd and code) taken from resolved
WriteTask(task, ref, resolved) ==
    IF ref = <<>>
    THEN [task EXCEPT !.cmd = resolved.cmd, !.code = resolved.code]
    ELSE [task EXCEPT !.depends[Head(ref)] = WriteTask(@, Tail(ref), resolved)]

\* Tasks after the assignments resolved.cmd = ... and resolved.code = ... of
\* the call f: the assignments reach the object that `resolved` names
Assigned(f) ==
    LET obj == ResolvedObject(f.ref)
    IN  IF obj = <<>> THEN tasks
        ELSE [tasks EXCEPT ![Head(obj)] = WriteTask(@, Tail(obj), f.resolved)]

\* a run_in_shell that registers cleanup at every parallel spawn
FirstParallelAlways == TRUE

\* run_in_shell: if not self.processes (first parallel)
FirstParallel == processes = <<>>

\* a run_in_shell that ignores dry_run
SpawnsAlways == TRUE

\* run_in_shell: whether a child is spawned
Spawns == ~args.dry_run

\* a Runner.run that never returns the code of the shell
ShellReturnZero(resolved) == 0

\* the value of "resolved.code or <post hook>" when the hook is not run
ShellReturn(resolved) == resolved.code

SetTop(f) == [stack EXCEPT ![Len(stack)] = f]

Running ==
    /\ status = "running"
    /\ stack # <<>>

\* a main without the finally clause
FinallyNothing(dir) == dir

\* main: finally: os.chdir(curr)
Finally(dir) == "curr"

\* sys.exit or an exception inside the try block of main: the process ends
\* where it stands, through the finally clause
Ends(how, code, cause) ==
    /\ status' = how
    /\ exit' = [code |-> code, cause |-> cause]
    /\ cwd' = Finally(cwd)

\* where the task of a nested call is stored: a dependency is a step of the
\* caller's task, a dispatched task and a hook come from tasks.get
RefOf(caller, task, step) ==
    IF step[1] = "dep"
    THEN IF caller.ref = <<>> THEN <<>> ELSE Append(caller.ref, step[2])
    ELSE <<Lookup(task.name)>>

\* a nested call of Runner.run; the interpreter bounds the depth of the calls
Call(caller, task, override, step) ==
    IF Len(stack) >= MaxDepth
    THEN /\ Ends("raised", 1, "RecursionError")
         /\ stack' = SetTop(caller)
    ELSE /\ stack' = Append(SetTop(caller),
                            Frame(task, override, Append(caller.path, step),
                                  RefOf(caller, task, step)))
         /\ UNCHANGED <<status, exit, cwd>>

\* a main that goes on whatever check_cycles raised
MainEndsNever(kind) == FALSE

\* main: except graphlib.CycleError / except LookupError (which an
\* IndexError is): the error is printed and main exits
MainEnds(kind) == kind \in {"CycleError", "IndexError"}

\* main: the configuration is checked for cycles, then the working directory
\* is changed to args.cwd and the root task is run. The order that
\* check_cycles returns is not used; the cycle it raises is printed.
Main ==
    /\ status = "start"
    /\ \E o \in check_cycles(tasks) :
         /\ cc' = IF o.kind = "order" THEN [o EXCEPT !.value = <<>>] ELSE o
         /\ IF MainEnds(o.kind)
            THEN /\ status' = "exited"
                 /\ exit' = [code |-> 1,
                             cause |-> IF o.kind = "CycleError" THEN "CycleError"
                                       ELSE "LookupError"]
                 /\ UNCHANGED <<stack, cwd>>
            ELSE /\ status' = "running"
                 /\ cwd' = "args.cwd"
                 /\ stack' = <<Frame(args.task, Task, <<>>, <<>>)>>
                 /\ UNCHANGED exit
    /\ UNCHANGED <<ENV, temps, call>>
    /\ UNCHANGED <<args, tasks, procs, processes, atexit, retval, cleanup>>

\* a Runner.run that does not look for the env-file
EnvFileIgnored(task) == FALSE

\* Runner.run: if task.env_file: if not task.env_file.exists()
EnvFileMissing(task) == task.env_file = "missing"

\* Runner.run: the env-file is read and the task is merged with the override
RunEnter ==
    /\ Running
    /\ Top.pc = "start"
    /\ IF EnvFileMissing(Top.task)
       THEN Ends("exited", 1, "env_file") /\ UNCHANGED stack
       ELSE /\ stack' = SetTop([Top EXCEPT !.resolved = Resolve(Top.task, Top.override),
                                          !.pc = "pre"])
            /\ UNCHANGED <<status, exit, cwd>>
    /\ UNCHANGED <<ENV, temps, call>>
    /\ UNCHANGED <<args, tasks, procs, processes, atexit, retval, cc, cleanup>>

\* Runner.run: self.run_pre_post(task, resolved, "pre")
RunPre ==
    /\ Running
    /\ Top.pc = "pre"
    /\ LET h == FindHook(Top.task, <<"p", "r", "e">>)
       IN  IF h = 0
           THEN /\ stack' = SetTop([Top EXCEPT !.pc = "deps"])
                /\ UNCHANGED <<status, exit, cwd>>
           ELSE Call([Top EXCEPT !.pc = "pre_call",
                                 !.hooked = Append(@, <<"pre", tasks[h].name>>)],
                     tasks[h], Top.resolved, <<"pre", 0>>)
    /\ UNCHANGED <<ENV, temps, call>>
    /\ UNCHANGED <<args, tasks, procs, processes, atexit, retval, cc, cleanup>>

\* Runner.run: the next dependency, in declared order
NextDep(f) == f.i + 1

\* Runner.run: for dep in task.depends: self.run(dep, resolved)
RunDeps ==
    /\ Running
    /\ Top.pc = "deps"
    /\ Top.i < Len(Top.task.depends)
    /\ Call([Top EXCEPT !.pc = "dep_call", !.i = Top.i + 1],
            Top.task.depends[NextDep(Top)], Top.resolved, <<"dep", NextDep(Top)>>)
    /\ UNCHANGED <<ENV, temps, call>>
    /\ UNCHANGED <<args, tasks, procs, processes, atexit, retval, cc, cleanup>>

\* Runner.run after the dependencies: nothing to do, a composite step, or
\* a shell command
RunBody ==
    /\ Running
    /\ Top.pc = "deps"
    /\ Top.i = Len(Top.task.depends)
    /\ stack' = SetTop(
         IF strip(Top.task.cmd) = <<>> THEN [Top EXCEPT !.pc = "post"]
         ELSE IF Top.task.name = TASK_COMPOSITE
              THEN [Top EXCEPT !.pc = "comp", !.others = Others(Top.task)]
         ELSE [Top EXCEPT !.pc = "shell"])
    /\ UNCHANGED <<ENV, temps, call>>
    /\ UNCHANGED <<args, tasks, status, exit, cwd, procs, processes, atexit, retval, cc,
                   cleanup>>

\* run_composite: the loop over the matched names, and what Runner.run does
\* with its result
RunComposite ==
    /\ Running
    /\ Top.pc = "comp"
    /\ IF Top.j < Len(Top.others)
       THEN LET other == tasks[Lookup(Top.others[Top.j + 1])]
                words == split(Top.task.cmd)
                extra == SubSeq(words, 2, Len(words))
            IN  IF CanDispatch(other, Top.task)
                THEN Call([Top EXCEPT !.pc = "comp_call", !.j = Top.j + 1,
                                      !.disp = Append(Top.disp, other.name)],
                          other,
                          [Top.resolved EXCEPT !.args = Top.resolved.args \o extra],
                          <<"run", Top.j + 1>>)
                ELSE /\ stack' = SetTop([Top EXCEPT !.j = Top.j + 1])
                     /\ UNCHANGED <<status, exit, cwd>>
       ELSE /\ stack' = SetTop(
                 IF ~Top.ran THEN [Top EXCEPT !.pc = "shell"]
                 ELSE IF Top.code # 0 THEN [Top EXCEPT !.pc = "done", !.ret = Top.code]
                 ELSE [Top EXCEPT !.pc = "post"])
            /\ UNCHANGED <<status, exit, cwd>>
    /\ UNCHANGED <<ENV, temps, call>>
    /\ UNCHANGED <<args, tasks, procs, processes, atexit, retval, cc, cleanup>>

\* Runner.run: return resolved.code or self.run_pre_post(task, resolved, "post")
AfterShell(f) ==
    IF ShellReturn(f.resolved) # 0
    THEN [f EXCEPT !.pc = "done", !.ret = ShellReturn(f.resolved)]
    ELSE [f EXCEPT !.pc = "post"]

\* a child process of the shell command of a call
Proc(f, text) ==
    [cmd |-> text, path |-> f.path, parallel |-> f.resolved.parallel,
     keep_going |-> f.resolved.keep_going, cwd |-> f.resolved.cwd,
     env |-> Merge(f.resolved.env, f.resolved._env), state |-> "running", code |-> 0]

\* Runner.run: the command is interpolated; run_in_shell up to the spawn
RunShell ==
    /\ Running
    /\ Top.pc = "shell"
    /\ LET r == interpolate_args(Top.override.cmd \o Top.task.cmd, Top.resolved.args)
           f == [Top EXCEPT !.resolved.cmd = r.text, !.shells = Top.shells + 1]
       IN  IF ~r.ok
           THEN /\ Ends("raised", 1, "IndexError")
                /\ UNCHANGED <<stack, procs, processes, atexit, tasks>>
           ELSE IF ~Spawns
           THEN /\ stack' = SetTop(AfterShell(f))
                /\ tasks' = Assigned(f)
                /\ UNCHANGED <<status, exit, cwd, procs, processes, atexit>>
           ELSE IF ~WaitsForChild(f.resolved)
           THEN /\ procs' = Append(procs, Proc(f, r.text))
                /\ processes' = Append(processes, Len(procs) + 1)
                /\ atexit' = IF FirstParallel THEN atexit + 1 ELSE atexit
                /\ stack' = SetTop(AfterShell(f))
                /\ tasks' = Assigned(f)
                /\ UNCHANGED <<status, exit, cwd>>
           ELSE /\ procs' = Append(procs, Proc(f, r.text))
                /\ stack' = SetTop([f EXCEPT !.pc = "wait"])
                /\ tasks' = Assigned(f)
                /\ UNCHANGED <<status, exit, cwd, processes, atexit>>
    /\ UNCHANGED <<ENV, temps, call>>
    /\ UNCHANGED <<args, retval, cc, cleanup>>

\* run_in_shell: subprocess.run returns, the code is recorded and examined
RunWait ==
    /\ Running
    /\ Top.pc = "wait"
    /\ \E c \in Outcomes(procs[Len(procs)].cmd) :
         LET f == [Top EXCEPT !.resolved.code = c]
         IN  /\ procs' = [procs EXCEPT ![Len(procs)].state = "exited",
                                       ![Len(procs)].code = c]
             /\ tasks' = Assigned(f)
             /\ IF IsFatal(c, f.resolved)
                THEN /\ Ends("exited", ExitCode(f.resolved), "shell")
                     /\ stack' = SetTop(f)
                ELSE /\ stack' = SetTop(AfterShell(f))
                     /\ UNCHANGED <<status, exit, cwd>>
    /\ UNCHANGED <<ENV, temps, call>>
    /\ UNCHANGED <<args, processes, atexit, retval, cc, cleanup>>

\* Runner.run: the post hook, whose code is the code of the call
RunPost ==
    /\ Running
    /\ Top.pc = "post"
    /\ LET h == FindHook(Top.task, <<"p", "o", "s", "t">>)
       IN  IF h = 0
           THEN /\ stack' = SetTop([Top EXCEPT !.pc = "done", !.ret = 0])
                /\ UNCHANGED <<status, exit, cwd>>
           ELSE Call([Top EXCEPT !.pc = "post_call",
                                 !.hooked = Append(@, <<"post", tasks[h].name>>)],
                     tasks[h], Top.resolved, <<"post", 0>>)
    /\ UNCHANGED <<ENV, temps, call>>
    /\ UNCHANGED <<args, tasks, procs, processes, atexit, retval, cc, cleanup>>

\* a run_composite that does not record that a task ran
ResumeForgetsRan(caller, code) ==
    LET c == [caller EXCEPT !.got = Append(@, <<caller.pc, code>>)]
    IN  IF caller.pc = "pre_call" THEN [c EXCEPT !.pc = "deps"]
        ELSE IF caller.pc = "dep_call" THEN [c EXCEPT !.pc = "deps"]
        ELSE IF caller.pc = "comp_call" THEN [c EXCEPT !.pc = "comp", !.code = code]
        ELSE [c EXCEPT !.pc = "done", !.ret = code]

\* what the caller does with the code a nested call returns
Resume(caller, code) ==
    LET c == [caller EXCEPT !.got = Append(@, <<caller.pc, code>>)]
    IN  IF caller.pc = "pre_call" THEN [c EXCEPT !.pc = "deps"]
        ELSE IF caller.pc = "dep_call" THEN [c EXCEPT !.pc = "deps"]
        ELSE IF caller.pc = "comp_call"
             THEN [c EXCEPT !.pc = "comp", !.ran = TRUE, !.code = code]
        ELSE [c EXCEPT !.pc = "done", !.ret = code]

\* a Runner.run that resolves into the override it was given
OverrideResolved(caller, callee) ==
    [caller.resolved EXCEPT !.args = callee.resolved.args,
                            !.cwd = callee.resolved.cwd,
                            !.env = callee.resolved.env,
                            !._env = callee.resolved._env,
                            !.keep_going = callee.resolved.keep_going,
                            !.parallel = callee.resolved.parallel]

\* Runner.run: resolved = replace(override, ...) is a new object, and
\* nothing is assigned to the override: the task the caller passed is, when
\* the call returns, as it was
Override(caller, callee) == caller.resolved

\* Runner.run returns
RunReturn ==
    /\ Running
    /\ Top.pc = "done"
    /\ IF Len(stack) = 1
       THEN /\ status' = "returned"
            /\ retval' = Top.ret
            /\ stack' = <<>>
            /\ cwd' = Finally(cwd)
       ELSE /\ stack' = [SubSeq(stack, 1, Len(stack) - 1)
                           EXCEPT ![Len(stack) - 1] =
                              Resume([stack[Len(stack) - 1] EXCEPT
                                        !.resolved = Override(stack[Len(stack) - 1], Top)],
                                     Top.ret)]
            /\ UNCHANGED <<status, retval, cwd>>
    /\ UNCHANGED <<ENV, temps, call>>
    /\ UNCHANGED <<args, tasks, exit, procs, processes, atexit, cc, cleanup>>

\* main: except KeyboardInterrupt: return. The interrupt arrives while the
\* root task runs and unwinds the calls; a subprocess.run that is waiting
\* ends its child (state "interrupted") before it passes the interrupt on.
Interrupt ==
    /\ Running
    /\ Ends("interrupted", 0, "KeyboardInterrupt")
    /\ stack' = <<>>
    /\ procs' = IF Top.pc = "wait"
                THEN [procs EXCEPT ![Len(procs)].state = "interrupted"]
                ELSE procs
    /\ UNCHANGED <<ENV, temps, call>>
    /\ UNCHANGED <<args, tasks, processes, atexit, retval, cc, cleanup>>

\* a child spawned with Popen exits on its own (a child that ends while
\* cleanup deals with it is the child of CleanupWait that ends in time)
ProcExit ==
    /\ status \in {"running", "returned"}
    /\ cleanup.pc \in {"idle", "done"}
    /\ \E k \in DOMAIN procs :
         /\ procs[k].parallel
         /\ procs[k].state = "running"
         /\ \E c \in Outcomes(procs[k].cmd) :
              procs' = [procs EXCEPT ![k].state = "exited", ![k].code = c]
    /\ UNCHANGED <<ENV, temps, call>>
    /\ UNCHANGED <<args, tasks, status, exit, stack, processes, atexit, retval, cc,
                   cleanup, cwd>>

\* the driver waits for every registered child, then the process ends
Join ==
    /\ status = "returned"
    /\ cleanup.pc \in {"idle", "done"}
    /\ \A k \in DOMAIN processes : procs[processes[k]].state # "running"
    /\ status' = "finished"
    /\ exit' = [code |-> 0, cause |-> "done"]
    /\ UNCHANGED <<ENV, temps, call>>
    /\ UNCHANGED <<args, tasks, stack, procs, processes, atexit, retval, cc, cleanup, cwd>>

\* Runner.cleanup is called: by the driver once Runner.run has returned
\* (test_run_composite), and by atexit when the process ends
CleanupStart ==
    /\ atexit > 0
    /\ ~cleanup.exiting
    /\ IF status = "returned" THEN cleanup.pc = "idle"
       ELSE /\ status \in {"exited", "raised", "finished", "interrupted"}
            /\ cleanup.pc \in {"idle", "done"}
    /\ cleanup' = [cleanup EXCEPT !.pc = IF processes = <<>> THEN "done" ELSE "terminate",
                                  !.i = 1,
                                  !.exiting = status # "returned"]
    /\ UNCHANGED <<ENV, temps, call>>
    /\ UNCHANGED <<args, tasks, status, exit, stack, procs, processes, atexit, retval, cc,
                   cwd>>

\* the child that cleanup is dealing with
Current == processes[cleanup.i]

\* cleanup: on to the next process of the loop
NextProcess(c) ==
    IF c.i < Len(processes)
    THEN [c EXCEPT !.pc = "terminate", !.i = c.i + 1]
    ELSE [c EXCEPT !.pc = "done"]

\* cleanup: process.terminate(); a child that has ended is sent nothing
CleanupTerminate ==
    /\ cleanup.pc = "terminate"
    /\ cleanup' = [cleanup EXCEPT !.pc = "wait",
                                  !.log = Append(@, <<"terminate", Current>>)]
    /\ UNCHANGED <<ENV, temps, call>>
    /\ UNCHANGED <<args, tasks, status, exit, stack, procs, processes, atexit, retval, cc,
                   cwd>>

\* a cleanup without the except clause
CatchesNothing(exc) == FALSE

\* cleanup: except subprocess.TimeoutExpired
Catches(exc) == exc = "TimeoutExpired"

\* cleanup: process.wait(timeout=3); a child that has ended is waited for at
\* once, a running one ends on the signal within the time or the wait
\* raises TimeoutExpired
CleanupWait ==
    /\ cleanup.pc = "wait"
    /\ IF procs[Current].state # "running"
       THEN /\ cleanup' = NextProcess(cleanup)
            /\ UNCHANGED procs
       ELSE \E expired \in BOOLEAN :
              IF ~expired
              THEN /\ procs' = [procs EXCEPT ![Current].state = "terminated"]
                   /\ cleanup' = NextProcess(cleanup)
              ELSE /\ cleanup' = [cleanup EXCEPT
                                    !.pc = IF Catches("TimeoutExpired") THEN "kill"
                                           ELSE "raised",
                                    !.log = Append(@, <<"timeout", Current>>)]
                   /\ UNCHANGED procs
    /\ UNCHANGED <<ENV, temps, call>>
    /\ UNCHANGED <<args, tasks, status, exit, stack, processes, atexit, retval, cc, cwd>>

\* cleanup: process.kill(); process.wait()
CleanupKill ==
    /\ cleanup.pc = "kill"
    /\ procs' = [procs EXCEPT ![Current].state =
                    IF @ = "running" THEN "killed" ELSE @]
    /\ cleanup' = [NextProcess(cleanup) EXCEPT !.log = Append(@, <<"kill", Current>>)]
    /\ UNCHANGED <<ENV, temps, call>>
    /\ UNCHANGED <<args, tasks, status, exit, stack, processes, atexit, retval, cc, cwd>>

Init ==
    /\ \E sc \in Scenarios :
         /\ args = [dry_run |-> sc.dry_run, pre |-> sc.pre, post |-> sc.post,
                    task |-> sc.task]
         /\ tasks = sc.tasks
    /\ status = "start"
    /\ exit = [code |-> 0, cause |-> "none"]
    /\ stack = <<>>
    /\ procs = <<>>
    /\ processes = <<>>
    /\ atexit = 0
    /\ retval = 0
    /\ cc = [kind |-> "none", value |-> <<>>]
    /\ cleanup = [pc |-> "idle", i |-> 1, log |-> <<>>, exiting |-> FALSE]
    /\ cwd = "curr"
    /\ ENV = <<>>
    /\ temps = <<>>
    /\ call = [fn |-> "none"]

Next ==
    \/ Main
    \/ RunEnter
    \/ RunPre
    \/ RunDeps
    \/ RunBody
    \/ RunComposite
    \/ RunShell
    \/ RunWait
    \/ RunPost
    \/ RunReturn
    \/ Interrupt
    \/ ProcExit
    \/ Join
    \/ CleanupStart
    \/ CleanupTerminate
    \/ CleanupWait
    \/ CleanupKill

Spec == Init /\ [][Next]_vars


\* ------------------------------------------------------------------------
\* Properties
\* ------------------------------------------------------------------------

IsPrefix(p, q) == Len(p) <= Len(q) /\ SubSeq(q, 1, Len(p)) = p

\* the children spawned by dependency i of the call f, or beneath it
ProcsOfDep(f, i) ==
    {k \in DOMAIN procs : IsPrefix(Append(f.path, <<"dep", i>>), procs[k].path)}

\* the children spawned for the own command of the call f
OwnProcs(f) == {k \in DOMAIN procs : procs[k].path = f.path}

Frames == {stack[d] : d \in DOMAIN stack}

\* children are spawned in the declared order of the dependencies: of two
\* children beneath different dependencies of one call, the one spawned first
\* is beneath the earlier dependency
DeclaredOrder ==
    \A k1, k2 \in DOMAIN procs : \A n \in DOMAIN procs[k1].path :
        (/\ k1 < k2
         /\ n <= Len(procs[k2].path)
         /\ SubSeq(procs[k1].path, 1, n - 1) = SubSeq(procs[k2].path, 1, n - 1)
         /\ procs[k1].path[n][1] = "dep"
         /\ procs[k2].path[n][1] = "dep")
        => procs[k1].path[n][2] <= procs[k2].path[n][2]

\* once a call has started a later dependency or spawned its own command,
\* the children of the earlier dependencies that satisfy P have exited
ExitedBefore(P(_)) ==
    \A f \in Frames : \A i \in DOMAIN f.task.depends : \A k \in ProcsOfDep(f, i) :
        (P(procs[k]) /\ (f.i > i \/ OwnProcs(f) # {})) => procs[k].state = "exited"

AnyProc(p) == TRUE
SequentialProc(p) == ~p.parallel

\* C1 (as stated): in sequential and in parallel mode alike, the dependencies
\* of a task start in declared order and the process of each dependency has
\* exited before the next dependency starts and before the task's own command
\* is spawned.
CexC1 == DeclaredOrder /\ ExitedBefore(AnyProc)

\* C1 (amended): the dependencies start in declared order in both modes; the
\* process of a dependency has exited before the next dependency starts and
\* before the task's own command is spawned when it ran in sequential mode.
ThmC1 == DeclaredOrder /\ ExitedBefore(SequentialProc)

\* a sequential run in which the second dependency of a call has spawned its
\* command after the command of the first one exited
WitC1 ==
    \E f \in Frames : \E k1 \in ProcsOfDep(f, 1) : \E k2 \in ProcsOfDep(f, 2) :
        /\ ~procs[k1].parallel
        /\ procs[k1].state = "exited"
        /\ k1 < k2

\* C2: in sequential mode without dry-run, a command that exits with a code
\* c # 0 while the resolved keep_going is false ends the run with a
\* process-wide exit carrying exactly c, and no command is spawned after it.
ThmC2 ==
    \A k \in DOMAIN procs :
        (/\ ~procs[k].parallel
         /\ procs[k].state = "exited"
         /\ procs[k].code # 0
         /\ ~procs[k].keep_going)
        => /\ status = "exited"
           /\ exit = [code |-> procs[k].code, cause |-> "shell"]
           /\ k = Len(procs)

\* a run ended by the failure of its second command
WitC2 ==
    /\ status = "exited"
    /\ exit = [code |-> 3, cause |-> "shell"]
    /\ Len(procs) = 2
    /\ procs[1].code = 0

\* C3: when the resolved keep_going of a task is true, by its own prefix or
\* inherited from an ancestor or an override, no command that fails in its
\* subtree (dependencies, dispatched tasks, hooks) ends the run: a run ended
\* by a shell failure has no active call whose resolved keep_going is true,
\* and a suppressed failure is followed by the later steps.
ThmC3 ==
    /\ (status = "exited" /\ exit.cause = "shell")
         => \A f \in Frames : ~f.resolved.keep_going
    /\ \A k \in DOMAIN procs :
         (procs[k].state = "exited" /\ procs[k].code # 0 /\ procs[k].keep_going)
           => ~(status = "exited" /\ exit.cause = "shell" /\ k = Len(procs))

\* a command failed beneath a dependency that inherits keep_going from the
\* "+" of an ancestor, and the caller's later step has spawned its command
WitC3 ==
    \E f \in Frames : \E k1 \in ProcsOfDep(f, 1) : \E k2 \in DOMAIN procs :
        /\ f.resolved.keep_going
        /\ procs[k1].code # 0
        /\ procs[k1].keep_going
        /\ Len(procs[k1].path) >= Len(f.path) + 3
        /\ k1 < k2
        /\ (k2 \in ProcsOfDep(f, 2) \/ k2 \in OwnProcs(f))
        /\ status = "running"


\* check_cycles applied on its own to a Tasks mapping
CheckCycles ==
    /\ status = "start"
    /\ cc.kind = "none"
    /\ cc' \in check_cycles(tasks)
    /\ status' = "checked"
    /\ UNCHANGED <<ENV, temps, call>>
    /\ UNCHANGED <<args, tasks, exit, stack, procs, processes, atexit, retval, cleanup,
                   cwd>>

InitCycles ==
    /\ tasks \in TasksAB \cup TasksHooks
    /\ args = [dry_run |-> FALSE, pre |-> FALSE, post |-> FALSE,
               task |-> RootTask(<<tA>>, FALSE)]
    /\ status = "start"
    /\ exit = [code |-> 0, cause |-> "none"]
    /\ stack = <<>>
    /\ procs = <<>>
    /\ processes = <<>>
    /\ atexit = 0
    /\ retval = 0
    /\ cc = [kind |-> "none", value |-> <<>>]
    /\ cleanup = [pc |-> "idle", i |-> 1, log |-> <<>>, exiting |-> FALSE]
    /\ cwd = "curr"
    /\ ENV = <<>>
    /\ temps = <<>>
    /\ call = [fn |-> "none"]

SpecCycles == InitCycles /\ [][CheckCycles]_vars

\* the graph of the claim: an edge from each task to the leading token of the
\* command of each direct dependency that has one, self-edges removed
ClaimGraph ==
    [n \in {tasks[k].name : k \in DOMAIN tasks} |->
       LET t == tasks[CHOOSE k \in DOMAIN tasks : tasks[k].name = n]
       IN  {split(t.depends[d].cmd)[1] :
              d \in {e \in DOMAIN t.depends : split(t.depends[e].cmd) # <<>>}} \ {n}]

\* C4: check_cycles raises the cycle error exactly when the graph of task
\* names and leading tokens has a cycle, the error carries names that form
\* the cycle, and otherwise an order is returned in which every referenced
\* name comes before each task that references it.
CexC4 ==
    cc.kind # "none" =>
        /\ cc.kind = "CycleError" <=> HasCycle(ClaimGraph)
        /\ cc.kind = "CycleError" => IsCycle(ClaimGraph, cc.value)
        /\ cc.kind # "CycleError" =>
             /\ cc.kind = "order"
             /\ \A k \in DOMAIN cc.value : \A m \in Succ(ClaimGraph, cc.value[k]) :
                   \E q \in 1..(k - 1) : cc.value[q] = m

\* the step of a call: a composite step with a command, made by its caller
IsStep(f) == f.task.name = TASK_COMPOSITE /\ strip(f.task.cmd) # <<>>

\* the call has finished its own step (composite dispatch or shell command)
PastStep(f) == f.pc \in {"done", "post", "post_call"}

\* C5: a composite step whose leading token names the task that owns the
\* step is never dispatched back to that task; when the token matches no
\* other task its text goes to the shell exactly once.  A task whose command
\* is its own name is not dispatched at all.
ThmC5 ==
    /\ \A d \in DOMAIN stack :
         (/\ d > 1
          /\ IsStep(stack[d])
          /\ stack[d - 1].pc = "dep_call"
          /\ split(stack[d].task.cmd)[1] = stack[d - 1].task.name)
         => /\ \A k \in DOMAIN stack[d].disp : stack[d].disp[k] # stack[d - 1].task.name
            /\ Others(stack[d].task) = <<stack[d - 1].task.name>> =>
                 /\ stack[d].disp = <<>>
                 /\ ~stack[d].ran
                 /\ PastStep(stack[d]) => stack[d].shells = 1
                 /\ Cardinality(OwnProcs(stack[d])) <= 1
    /\ \A f \in Frames :
         (f.task.name # TASK_COMPOSITE /\ f.task.name # <<>>
            /\ split(f.task.cmd) = <<f.task.name>>)
         => /\ f.disp = <<>>
            /\ PastStep(f) => f.shells = 1
            /\ Cardinality(OwnProcs(f)) <= 1

\* the step "a" of the task a has run the command a in the shell and is done
WitC5 ==
    \E d \in DOMAIN stack :
        /\ d > 1
        /\ IsStep(stack[d])
        /\ stack[d - 1].pc = "dep_call"
        /\ stack[d - 1].task.name = tA
        /\ split(stack[d].task.cmd)[1] = tA
        /\ stack[d].pc = "done"
        /\ \E k \in OwnProcs(stack[d]) : procs[k].cmd = tA /\ procs[k].state = "exited"

\* C6 (as stated): the shell is used for a composite step if and only if no
\* task was dispatched for it, exactly one shell command is spawned when the
\* leading token matches no task, and a name that is neither a task nor a
\* runnable command ends the run with code 127.
CexC6 ==
    /\ \A f \in Frames :
         (IsStep(f) /\ PastStep(f)) =>
            /\ f.disp # <<>> <=> OwnProcs(f) = {}
            /\ Others(f.task) = <<>> => Cardinality(OwnProcs(f)) = 1
    /\ \A k \in DOMAIN procs :
         (procs[k].state = "exited" /\ procs[k].code = CommandNotFound)
           => (status = "exited" /\ exit.code = CommandNotFound)

\* C6 (amended): run_in_shell is called for a composite step if and only if
\* no task was dispatched for it; after a dispatch nothing is spawned for the
\* step's own text; without a dispatch run_in_shell is called once with the
\* interpolated text and spawns one command unless dry-run is set; a command
\* that is not found ends the run with code 127 when it ran in sequential
\* mode with keep_going false.
ThmC6 ==
    /\ \A f \in Frames :
         IsStep(f) =>
            /\ f.disp # <<>> => (f.shells = 0 /\ OwnProcs(f) = {})
            /\ PastStep(f) => (f.disp = <<>> <=> f.shells = 1)
            /\ (PastStep(f) /\ Others(f.task) = <<>>) => f.shells = 1
            /\ f.shells = 1 =>
                 /\ Cardinality(OwnProcs(f)) = IF args.dry_run THEN 0 ELSE 1
                 /\ f.resolved.cmd =
                      interpolate_args(f.override.cmd \o f.task.cmd, f.resolved.args).text
                 /\ \A k \in OwnProcs(f) : procs[k].cmd = f.resolved.cmd
    /\ \A k \in DOMAIN procs :
         (/\ procs[k].state = "exited"
          /\ procs[k].code = CommandNotFound
          /\ ~procs[k].parallel
          /\ ~procs[k].keep_going)
         => (status = "exited" /\ exit.code = CommandNotFound)

\* a step whose token matches no task ran in the shell, was not found and
\* ended the run with 127
WitC6 ==
    /\ status = "exited"
    /\ exit.code = CommandNotFound
    /\ IsStep(Top)
    /\ Others(Top.task) = <<>>
    /\ Top.shells = 1
    /\ Cardinality(OwnProcs(Top)) = 1

\* the names a step must dispatch to by C7: matched, distinct from the step,
\* and not the task of a call that is active beneath the step
ExpectedDispatch(d) ==
    LET names == Others(stack[d].task)
        Wanted(n) ==
            /\ tasks[Lookup(n)] # stack[d].task
            /\ \A q \in 1..(d - 1) : stack[q].task # tasks[Lookup(n)]
    IN  SelectSeq(names, Wanted)

\* C7: every matched task that is distinct from the step and not an ancestor
\* of it is run exactly once for the step, in the order of the names in
\* Tasks, and a step that names such a task does not fall back to the shell.
CexC7 ==
    \A d \in DOMAIN stack :
        (IsStep(stack[d]) /\ (PastStep(stack[d]) \/ stack[d].pc \in {"shell", "wait"}))
        => LET want == ExpectedDispatch(d)
               InWant(n) == \E k \in DOMAIN want : want[k] = n
           IN  /\ SelectSeq(stack[d].disp, InWant) = want
               /\ want # <<>> => stack[d].shells = 0

\* C8: in parallel mode, a command that exits with a non-zero code while the
\* resolved keep_going is false ends the run with a process-wide exit that
\* carries the code: the run never finishes normally after such a failure.
CexC8 ==
    status = "finished" =>
        \A k \in DOMAIN procs :
            ~(procs[k].parallel /\ procs[k].code # 0 /\ ~procs[k].keep_going)

\* C9: when the resolved keep_going is true and the shell command exits with
\* a non-zero code, Runner.run returns 0 to its caller.
CexC9 ==
    \A f \in Frames :
        (/\ f.pc = "done"
         /\ f.shells = 1
         /\ f.resolved.keep_going
         /\ f.resolved.code # 0)
        => f.ret = 0

\* C10: with dry_run no process is spawned, nothing is added to the
\* registry, no shell failure ends the run and every call returns 0.
ThmC10 ==
    args.dry_run =>
        /\ procs = <<>>
        /\ processes = <<>>
        /\ atexit = 0
        /\ ~(status = "exited" /\ exit.cause = "shell")
        /\ \A f \in Frames : f.pc = "done" => f.ret = 0
        /\ status \in {"returned", "finished"} => retval = 0

\* a dry run has shown a command the shell would not have found, and the
\* call returns
WitC10 ==
    /\ args.dry_run
    /\ \E f \in Frames :
         /\ f.pc = "done"
         /\ f.shells = 1
         /\ Outcomes(f.resolved.cmd) = {CommandNotFound}


\* C11: no call of Runner.run changes a Task stored in Tasks: every step of
\* a run (through dependencies, dispatch, hooks, keep_going, dry-run) leaves
\* the mapping, with the cmd, depends, args, env, cwd, keep_going and code of
\* every task, as it was.
ThmC11 == [][tasks' = tasks]_vars

\* a call for a stored task has assigned the text of its command and a
\* non-zero code to its resolved task, and the stored task is free of both
WitC11 ==
    \E f \in Frames :
        /\ f.ref # <<>>
        /\ f.pc = "done"
        /\ f.shells = 1
        /\ f.resolved.code # 0
        /\ f.resolved.cmd # f.task.cmd
        /\ tasks[Head(f.ref)].code = 0


\* C12: main evaluates check_cycles once, after Tasks is loaded and before
\* any command is spawned; when it raises the cycle error main prints the
\* cycle and exits with code 1, and no command has been spawned.
ThmC12 ==
    /\ [](/\ status = "start" <=> cc.kind = "none"
          /\ procs # <<>> => cc.kind = "order"
          /\ stack # <<>> => cc.kind = "order"
          /\ cc.kind = "CycleError" =>
                /\ status = "exited"
                /\ exit = [code |-> 1, cause |-> "CycleError"]
                /\ IsCycle(Graph(tasks), cc.value)
                /\ procs = <<>>)
    /\ [][cc.kind # "none" => cc' = cc]_vars

\* main has exited with 1 on the cycle a => b => a
WitC12 ==
    /\ status = "exited"
    /\ exit = [code |-> 1, cause |-> "CycleError"]
    /\ cc.kind = "CycleError"
    /\ cc.value \in {<<tA, tB, tA>>, <<tB, tA, tB>>}
    /\ procs = <<>>


\* the children spawned by the call f or beneath it
ProcsBeneath(f) == {k \in DOMAIN procs : IsPrefix(f.path, procs[k].path)}

ExpectedHook(kind, name) ==
    IF \E k \in DOMAIN tasks : tasks[k].name = kind \o name
    THEN kind \o name
    ELSE IF \E k \in DOMAIN tasks : tasks[k].name = kind \o <<"_">> \o name
    THEN kind \o <<"_">> \o name
    ELSE IF \E k \in DOMAIN tasks : tasks[k].name = kind \o <<"-">> \o name
    THEN kind \o <<"-">> \o name
    ELSE <<>>

\* the hooks of one kind that a call has run
HooksRun(f, kind) ==
    SelectSeq(f.hooked, LAMBDA h : h[1] = kind)

\* the children spawned by the hook of one kind of the call f
ProcsOfHook(f, kind) ==
    {k \in DOMAIN procs : IsPrefix(Append(f.path, <<kind, 0>>), procs[k].path)}

IsNamed(task) == task.name # <<>> /\ task.name # TASK_COMPOSITE

AllExited(S) == \A k \in S : procs[k].state = "exited"

\* C14: with the flags on, the first existing pre-hook of a named task (and
\* no other) has run to completion before a dependency of the task starts;
\* the first existing post-hook runs after the dependencies and the task's
\* own command have completed, whenever that command completed without
\* ending the run; anonymous tasks and composite steps have no hooks, and
\* no hook runs when its flag is off.
CexC14 ==
    \A f \in Frames :
        LET pre == ExpectedHook(<<"p", "r", "e">>, f.task.name)
            post == ExpectedHook(<<"p", "o", "s", "t">>, f.task.name)
        IN  /\ ~IsNamed(f.task) => f.hooked = <<>>
            /\ ~args.pre => HooksRun(f, "pre") = <<>>
            /\ ~args.post => HooksRun(f, "post") = <<>>
            /\ (IsNamed(f.task) /\ args.pre /\ f.pc \notin {"start", "pre", "pre_call"}) =>
                  /\ HooksRun(f, "pre") = IF pre = <<>> THEN <<>> ELSE <<<<"pre", pre>>>>
                  /\ AllExited(ProcsOfHook(f, "pre"))
            /\ (IsNamed(f.task) /\ args.post /\ f.pc = "done") =>
                  HooksRun(f, "post") = IF post = <<>> THEN <<>> ELSE <<<<"post", post>>>>
            /\ HooksRun(f, "post") # <<>> =>
                  /\ f.i = Len(f.task.depends)
                  /\ \A i \in DOMAIN f.task.depends : AllExited(ProcsOfDep(f, i))
                  /\ AllExited(OwnProcs(f))


\* the codes that the nested calls of one kind have returned to the call f
Returned(f, kind) == SelectSeq(f.got, LAMBDA g : g[1] = kind)

\* the code of the own step of a call: the result of the composite dispatch
\* (the code of the task dispatched last) or the exit code of the command
\* that was run and waited for; 0 when there was neither
OwnCode(f) ==
    LET runs == Returned(f, "comp_call")
        waited == {k \in OwnProcs(f) : ~procs[k].parallel}
    IN  IF runs # <<>> THEN runs[Len(runs)][2]
        ELSE IF waited # {} THEN procs[CHOOSE k \in waited : TRUE].code
        ELSE 0

CexC16 ==
    \A d \in DOMAIN stack :
        (/\ d > 1
         /\ stack[d - 1].pc = "comp_call"
         /\ stack[d - 1].task.args = <<>>
         /\ stack[d].pc # "start")
        => LET step == stack[d - 1]
               words == split(step.task.cmd)
               t == SubSeq(words, 2, Len(words))
               o == step.override.args
           IN  stack[d].resolved.args = stack[d].task.args \o t \o o


\* the cwd of the outermost of the calls 1..d whose task sets one, "" when
\* none does
OutermostCwd(d) ==
    LET S == {q \in 1..d : stack[q].task.cwd # ""}
    IN  IF S = {} THEN ""
        ELSE stack[CHOOSE q \in S : \A r \in S : q <= r].task.cwd

\* C17: the resolved cwd is the cwd of the override when it has one and the
\* cwd of the task otherwise; along a chain of nested calls a command runs
\* in the cwd of the outermost caller that sets one.
ThmC17 ==
    \A d \in DOMAIN stack :
        stack[d].pc # "start" =>
            /\ stack[d].resolved.cwd =
                  IF stack[d].override.cwd # "" THEN stack[d].override.cwd
                  ELSE stack[d].task.cwd
            /\ stack[d].resolved.cwd = OutermostCwd(d)
            /\ \A k \in OwnProcs(stack[d]) : procs[k].cwd = OutermostCwd(d)

\* the command of task b, whose own cwd is B, runs in the cwd A of the task
\* that called it, the root task having none
WitC17 ==
    \E d \in DOMAIN stack : \E k \in OwnProcs(stack[d]) :
        /\ stack[d].task.cwd = "B"
        /\ stack[1].task.cwd = ""
        /\ procs[k].cwd = "A"

\* C18: for every key set both in the env of the override and in the env of
\* the task, the resolved env of the task and the environment given to its
\* command hold the value of the override.
CexC18 ==
    \A f \in Frames :
        f.pc # "start" =>
            \A key \in DOMAIN f.override.env \cap DOMAIN f.task.env :
                /\ f.resolved.env[key] = f.override.env[key]
                /\ \A k \in OwnProcs(f) : procs[k].env[key] = f.override.env[key]


\* the children in the registry of the Runner
Tracked == {processes[i] : i \in DOMAIN processes}

\* C19: Runner.cleanup sends a graceful terminate to each tracked child,
\* sends a kill to a child only after the bounded wait for that child has
\* timed out, does not raise, and when it returns no tracked child is still
\* running.
ThmC19 ==
    /\ cleanup.pc # "raised"
    /\ cleanup.pc = "done" =>
          /\ \A k \in Tracked : procs[k].state # "running"
          /\ \A k \in Tracked : \E n \in DOMAIN cleanup.log :
                cleanup.log[n] = <<"terminate", k>>
    /\ \A n \in DOMAIN cleanup.log :
          cleanup.log[n][1] = "kill" =>
             /\ n > 2
             /\ cleanup.log[n - 1] = <<"timeout", cleanup.log[n][2]>>
             /\ cleanup.log[n - 2] = <<"terminate", cleanup.log[n][2]>>
    /\ \A k \in DOMAIN procs : procs[k].state \in {"terminated", "killed"} =>
          /\ k \in Tracked
          /\ \E n \in DOMAIN cleanup.log : cleanup.log[n] = <<"terminate", k>>
          /\ procs[k].state = "killed" =>
               \E n \in DOMAIN cleanup.log : cleanup.log[n] = <<"kill", k>>

\* cleanup has returned with two tracked children: one ended on the
\* terminate, the other was killed after its wait timed out
WitC19 ==
    /\ cleanup.pc = "done"
    /\ Len(processes) = 2
    /\ procs[processes[1]].state = "terminated"
    /\ procs[processes[2]].state = "killed"


\* C20: every child spawned in parallel mode is in the registry exactly
\* once, a child spawned in sequential mode is not in it, and cleanup is
\* registered with atexit exactly once, at the first parallel spawn, and
\* never in a run without a parallel spawn.
ThmC20 ==
    /\ \A k \in DOMAIN procs :
          Cardinality({i \in DOMAIN processes : processes[i] = k}) =
             IF procs[k].parallel THEN 1 ELSE 0
    /\ \A i \in DOMAIN processes : processes[i] \in DOMAIN procs
    /\ atexit = IF \E k \in DOMAIN procs : procs[k].parallel THEN 1 ELSE 0

\* two children have been spawned in parallel mode: both are in the
\* registry and cleanup is registered once
WitC20 ==
    /\ Len(procs) = 2
    /\ procs[1].parallel
    /\ procs[2].parallel
    /\ processes = <<1, 2>>
    /\ atexit = 1


\* ------------------------------------------------------------------------
\* C21: the working directory on the exit paths of main
\* ------------------------------------------------------------------------

\* main has left the try block around the run of the root task
LeftTry == status \in {"returned", "finished", "exited", "raised", "interrupted"}

\* C21: on every exit path of main after it changed the working directory
\* (normal return, an exit of the process on a fatal shell failure or another
\* error, a keyboard interrupt) the working directory of the process is
\* again the one from before the change, and it is the changed one only
\* while the root task runs; a keyboard interrupt ends main with exit code 0.
ThmC21 ==
    /\ LeftTry => cwd = "curr"
    /\ status = "running" => cwd = "args.cwd"
    /\ status = "interrupted" => exit.code = 0

\* main was interrupted after it had changed the directory and children had
\* been spawned, one of them being waited for
WitC21 ==
    /\ status = "interrupted"
    /\ cc.kind = "order"
    /\ Len(procs) >= 2
    /\ procs[Len(procs)].state = "interrupted"
    /\ cwd = "curr"

\* ------------------------------------------------------------------------
\* TempEnv (env.py)
\* ------------------------------------------------------------------------

\* None, which no value of a variable equals
None == "None"

EnvKeys == {"a", "b"}
EnvValues == {"", "x"}

\* how many variables are set or deleted in all, by constructors included
MaxOps == 4

\* how many TempEnv objects are constructed
MaxTemps == 2

\* ENV.get(key)
EnvGet(env, key) == IF key \in DOMAIN env THEN env[key] ELSE None

\* ENV[key] = value
EnvSet(env, key, value) ==
    [k \in DOMAIN env \cup {key} |-> IF k = key THEN value ELSE env[k]]

\* if key in ENV: del ENV[key]
EnvDel(env, key) == [k \in DOMAIN env \ {key} |-> env[k]]

\* a TempEnv that saves the value of a key at every operation
NotSavedNever(saved, key) == TRUE

\* __setitem__, __delitem__: if key not in self.saved
NotSaved(saved, key) == key \notin DOMAIN saved

\* self.saved after an operation on key
Save(saved, env, key) ==
    IF NotSaved(saved, key) THEN EnvSet(saved, key, EnvGet(env, key)) ELSE saved

\* the TempEnv t after __setitem__ or __delitem__ of key. ops counts the
\* variables set or deleted through t; first keeps, for the keys t has touched, what
\* ENV.get gave just before the first of them
Touch(t, env, key) ==
    [t EXCEPT !.saved = Save(t.saved, env, key),
              !.ops = t.ops + 1,
              !.first = IF key \in DOMAIN t.first THEN t.first
                        ELSE EnvSet(t.first, key, EnvGet(env, key))]

\* the environment after __setitem__ (value a string) or __delitem__ (None)
Touched(env, key, value) ==
    IF value = None THEN EnvDel(env, key) ELSE EnvSet(env, key, value)

\* TempEnv(**initial) with at most one initial variable, entered by with;
\* made counts the objects constructed, ops the variables set or deleted
TempEnvEnter ==
    /\ call.made < MaxTemps
    /\ call.fn = "TempEnv"
    /\ \E initial \in {<<>>} \cup {<<k, v>> : k \in EnvKeys, v \in EnvValues \cup {None}} :
         LET t == [saved |-> <<>>, ops |-> 0, first |-> <<>>]
         IN  IF initial = <<>>
             THEN /\ temps' = Append(temps, t)
                  /\ call' = [call EXCEPT !.last = "enter", !.made = @ + 1]
                  /\ UNCHANGED ENV
             ELSE /\ call.ops < MaxOps
                  /\ temps' = Append(temps, Touch(t, ENV, initial[1]))
                  /\ ENV' = Touched(ENV, initial[1], initial[2])
                  /\ call' = [call EXCEPT !.last = "enter", !.made = @ + 1,
                                          !.ops = @ + 1]
    /\ UNCHANGED <<args, tasks, status, exit, stack, procs, processes, atexit, retval,
                   cc, cleanup, cwd>>

\* env[key] = value through one of the entered TempEnv objects; lifo tells
\* whether every operation so far went through the innermost one
TempEnvSet ==
    /\ call.fn = "TempEnv"
    /\ \E n \in DOMAIN temps, key \in EnvKeys, value \in EnvValues :
         /\ call.ops < MaxOps
         /\ temps' = [temps EXCEPT ![n] = Touch(@, ENV, key)]
         /\ ENV' = Touched(ENV, key, value)
         /\ call' = [call EXCEPT !.last = "set", !.lifo = @ /\ n = Len(temps),
                                 !.ops = @ + 1]
    /\ UNCHANGED <<args, tasks, status, exit, stack, procs, processes, atexit, retval,
                   cc, cleanup, cwd>>

\* del env[key] through one of the entered TempEnv objects
TempEnvDel ==
    /\ call.fn = "TempEnv"
    /\ \E n \in DOMAIN temps, key \in EnvKeys :
         /\ call.ops < MaxOps
         /\ temps' = [temps EXCEPT ![n] = Touch(@, ENV, key)]
         /\ ENV' = Touched(ENV, key, None)
         /\ call' = [call EXCEPT !.last = "del", !.lifo = @ /\ n = Len(temps),
                                 !.ops = @ + 1]
    /\ UNCHANGED <<args, tasks, status, exit, stack, procs, processes, atexit, retval,
                   cc, cleanup, cwd>>

\* __exit__: every saved key is set back or deleted
Restore(env, saved) ==
    [k \in (DOMAIN env \ {x \in DOMAIN saved : saved[x] = None})
            \cup {x \in DOMAIN saved : saved[x] # None} |->
        IF k \in DOMAIN saved THEN saved[k] ELSE env[k]]

\* the with block of the innermost TempEnv ends; the object that exited and
\* the environment before the exit are kept in call
TempEnvExit ==
    /\ call.fn = "TempEnv"
    /\ temps # <<>>
    /\ ENV' = Restore(ENV, temps[Len(temps)].saved)
    /\ temps' = SubSeq(temps, 1, Len(temps) - 1)
    /\ call' = [call EXCEPT !.last = "exit", !.exited = temps[Len(temps)],
                            !.before = ENV]
    /\ UNCHANGED <<args, tasks, status, exit, stack, procs, processes, atexit, retval,
                   cc, cleanup, cwd>>

\* the environments of a process: every variable set or not
Environs == UNION {[D -> EnvValues] : D \in SUBSET EnvKeys}

InitEnv ==
    /\ ENV \in Environs
    /\ temps = <<>>
    /\ call = [fn |-> "TempEnv", last |-> "none", exited |-> <<>>, before |-> <<>>,
               orig |-> ENV, lifo |-> TRUE, made |-> 0, ops |-> 0]
    /\ tasks = <<>>
    /\ args = [dry_run |-> FALSE, pre |-> FALSE, post |-> FALSE, task |-> Task]
    /\ status = "start"
    /\ exit = [code |-> 0, cause |-> "none"]
    /\ stack = <<>>
    /\ procs = <<>>
    /\ processes = <<>>
    /\ atexit = 0
    /\ retval = 0
    /\ cc = [kind |-> "none", value |-> <<>>]
    /\ cleanup = [pc |-> "idle", i |-> 1, log |-> <<>>, exiting |-> FALSE]
    /\ cwd = "curr"

NextEnv ==
    \/ TempEnvEnter
    \/ TempEnvSet
    \/ TempEnvDel
    \/ TempEnvExit

SpecEnv == InitEnv /\ [][NextEnv]_vars

\* ------------------------------------------------------------------------
\* C22: a TempEnv restores what it touched
\* ------------------------------------------------------------------------

\* C22: when a TempEnv exits, every key that was set or deleted through it
\* has the value it had before the TempEnv first touched it, a key that did
\* not exist then is absent again, and the keys it did not touch are as they
\* were before the exit; when TempEnvs are nested, used innermost first and
\* exited last-in-first-out, the environment after the last exit is the one
\* from before the first TempEnv.
ThmC22 ==
    /\ call.fn = "TempEnv" /\ call.last = "exit" =>
          \A key \in EnvKeys :
              IF key \in DOMAIN call.exited.first
              THEN EnvGet(ENV, key) = call.exited.first[key]
              ELSE EnvGet(ENV, key) = EnvGet(call.before, key)
    /\ call.fn = "TempEnv" /\ call.lifo /\ temps = <<>> => ENV = call.orig

\* the inner of two nested TempEnvs exits after three operations on two
\* keys: one did not exist before, was set and is absent again, the other
\* existed, was deleted and is back
WitC22 ==
    /\ call.fn = "TempEnv"
    /\ call.last = "exit"
    /\ Len(temps) = 1
    /\ call.exited.ops = 3
    /\ \E k1, k2 \in EnvKeys :
         /\ k1 # k2
         /\ {k1, k2} \subseteq DOMAIN call.exited.first
         /\ call.exited.first[k1] = None
         /\ k1 \in DOMAIN call.before
         /\ k1 \notin DOMAIN ENV
         /\ call.exited.first[k2] # None
         /\ k2 \notin DOMAIN call.before
         /\ k2 \in DOMAIN ENV

\* ------------------------------------------------------------------------
\* Calls of interpolate_args (env.py)
\* ------------------------------------------------------------------------

\* how many placeholders a command built from placeholders has
MaxPlaceholders == 4

\* how long a command written character by character is
MaxLen == 4

Digits == <<"1", "2", "3">>

\* a placeholder: $N, ${N}, ${N:-default} (kind "pos"), $@, ${@},
\* ${@:-default} (kind "rest")
Placeholder(kind, n, braces, hasDefault, default) ==
    [kind |-> kind, n |-> n, braces |-> braces, hasDefault |-> hasDefault,
     default |-> default]

\* the text of a placeholder
PlaceholderText(ph) ==
    LET arg == IF ph.kind = "rest" THEN <<ARG_REST>> ELSE <<Digits[ph.n]>>
    IN  IF ~ph.braces THEN <<ARG_PREFIX>> \o arg
        ELSE IF ~ph.hasDefault THEN <<ARG_PREFIX, "{">> \o arg \o <<"}">>
        ELSE <<ARG_PREFIX, "{">> \o arg \o <<":", "-">> \o ph.default \o <<"}">>

\* the command `first ph ph ...`: a word and the placeholders, each after a
\* space
RECURSIVE CmdText(_, _)
CmdText(first, phs) ==
    IF phs = <<>> THEN first
    ELSE CmdText(first \o <<" ">> \o PlaceholderText(phs[1]), Tail(phs))

\* the placeholders without a default
Plain ==
    {Placeholder("pos", n, b, FALSE, <<>>) : n \in 1..3, b \in BOOLEAN}
    \cup {Placeholder("rest", 0, b, FALSE, <<>>) : b \in BOOLEAN}

\* the placeholders with a default, empty or not
Defaulted ==
    {Placeholder("pos", n, TRUE, TRUE, d) : n \in 1..2, d \in {<<>>, <<"f", "o", "o">>}}
    \cup {Placeholder("rest", 0, TRUE, TRUE, d) : d \in {<<>>, <<"f", "o", "o">>}}

\* the sequences over S of the lengths lo..hi
Seqs(S, lo, hi) == UNION {[1..n -> S] : n \in lo..hi}

\* test_interpolate_args: commands of up to MaxPlaceholders placeholders
\* without defaults, with arguments b, c, d
CallsOrder ==
    {[first |-> <<"a">>, tokens |-> phs, cmd |-> CmdText(<<"a">>, phs), args |-> a] :
        phs \in Seqs(Plain, 1, MaxPlaceholders),
        a \in {<<<<"b">>, <<"c">>, <<"d">>>>, <<<<"b">>, <<"c">>>>, <<<<"d">>>>}}

\* commands written character by character, among them the forms {args}
\* and {args: of test_pdm_args; an argument may be empty or look like a
\* placeholder
CallsText ==
    {[first |-> c, tokens |-> <<>>, cmd |-> c, args |-> a] :
        c \in Seqs({"a", " ", ARG_PREFIX, ARG_REST}, 1, MaxLen)
              \cup {<<"a", " ", "{", "a", "r", "g", "s", "}">>,
                     <<"a", " ", "{", "a", "r", "g", "s", ":">>},
        a \in Seqs({<<"b">>, <<>>, <<ARG_PREFIX, ARG_REST>>}, 0, 2)}

\* test_missing_args, test_default_args: commands of one or two
\* placeholders with and without defaults, with up to two arguments that
\* may be empty
CallsDefault ==
    {[first |-> <<"l", "s">>, tokens |-> phs, cmd |-> CmdText(<<"l", "s">>, phs),
      args |-> a] :
        phs \in Seqs(Plain \cup Defaulted, 1, 2),
        a \in Seqs({<<"b", "a", "r">>, <<>>}, 0, 2)}

\* interpolate_args(cmd, args) is called; first and tokens tell how the
\* command was written
InterpolateArgs ==
    /\ call.fn = "interpolate_args"
    /\ call.state = "called"
    /\ call' = [call EXCEPT !.state = "returned",
                            !.result = interpolate_args(call.cmd, call.args)]
    /\ UNCHANGED <<ENV, temps>>
    /\ UNCHANGED <<args, tasks, status, exit, stack, procs, processes, atexit, retval,
                   cc, cleanup, cwd>>

InitArgs ==
    /\ \E c \in CallsOrder \cup CallsText \cup CallsDefault :
         call = [fn |-> "interpolate_args", state |-> "called", first |-> c.first,
                 tokens |-> c.tokens, cmd |-> c.cmd, args |-> c.args,
                 result |-> [ok |-> TRUE, text |-> <<>>]]
    /\ ENV = <<>>
    /\ temps = <<>>
    /\ tasks = <<>>
    /\ args = [dry_run |-> FALSE, pre |-> FALSE, post |-> FALSE, task |-> Task]
    /\ status = "start"
    /\ exit = [code |-> 0, cause |-> "none"]
    /\ stack = <<>>
    /\ procs = <<>>
    /\ processes = <<>>
    /\ atexit = 0
    /\ retval = 0
    /\ cc = [kind |-> "none", value |-> <<>>]
    /\ cleanup = [pc |-> "idle", i |-> 1, log |-> <<>>, exiting |-> FALSE]
    /\ cwd = "curr"

SpecArgs == InitArgs /\ [][InterpolateArgs]_vars

\* interpolate_args has returned or raised
Interpolated == call.fn = "interpolate_args" /\ call.state = "returned"

\* the arguments at the positions of pool, in order
RECURSIVE Pooled(_, _, _)
Pooled(a, pool, k) ==
    IF k > Len(a) THEN <<>>
    ELSE (IF k \in pool THEN <<a[k]>> ELSE <<>>) \o Pooled(a, pool, k + 1)

\* what the placeholders phs stand for, read left to right with the
\* arguments at the positions of pool not consumed so far; each is written
\* after a space
RECURSIVE Substituted(_, _, _)
Substituted(phs, a, pool) ==
    IF phs = <<>> THEN <<>>
    ELSE LET ph == phs[1]
         IN  IF ph.kind = "rest"
             THEN <<" ">>
                  \o (IF pool = {} THEN ph.default ELSE join(Pooled(a, pool, 1)))
                  \o Substituted(Tail(phs), a, pool)
             ELSE <<" ">>
                  \o (IF ph.n <= Len(a) THEN a[ph.n] ELSE ph.default)
                  \o Substituted(Tail(phs), a, pool \ {ph.n})

\* ------------------------------------------------------------------------
\* C23: placeholders are substituted left to right
\* ------------------------------------------------------------------------

\* every placeholder is without a default and within the arguments
InRange(phs, a) ==
    \A k \in DOMAIN phs :
        /\ ~phs[k].hasDefault
        /\ phs[k].kind = "pos" => phs[k].n <= Len(a)

\* C23: interpolate_args substitutes placeholders left to right: $N and ${N}
\* yield the N-th argument and remove it from the pool, $@ and ${@} yield,
\* joined by spaces, the arguments that no placeholder to their left has
\* consumed, and consume none.
ThmC23 ==
    Interpolated /\ call.tokens # <<>> /\ InRange(call.tokens, call.args) =>
        /\ call.result.ok
        /\ call.result.text =
              rstrip(call.first \o Substituted(call.tokens, call.args, DOMAIN call.args))

\* `a $1 ${@} $3 $@` with the arguments b, c, d gives `a b c d d c`
WitC23 ==
    /\ Interpolated
    /\ call.cmd = <<"a", " ", "$", "1", " ", "$", "{", "@", "}", " ", "$", "3", " ",
                    "$", "@">>
    /\ call.args = <<<<"b">>, <<"c">>, <<"d">>>>
    /\ call.result.ok
    /\ call.result.text = <<"a", " ", "b", " ", "c", " ", "d", " ", "d", " ", "c">>

\* ------------------------------------------------------------------------
\* C24: a command without a placeholder gets the arguments appended
\* ------------------------------------------------------------------------

\* cmd contains the start of a placeholder of the grammar $N, ${N}, $@, ${@},
\* ${N:-default}, ${@:-default}
ContainsPlaceholder(cmd) ==
    \E i \in 1..(Len(cmd) - 1) :
        /\ cmd[i] = ARG_PREFIX
        /\ cmd[i + 1] = ARG_REST \/ IsDigit(cmd[i + 1]) \/ cmd[i + 1] = "{"

\* cmd contains the text sub
ContainsText(cmd, sub) ==
    \E i \in 1..(Len(cmd) - Len(sub) + 1) : SubSeq(cmd, i, i + Len(sub) - 1) = sub

\* the command followed by one space and the space-joined arguments, without
\* trailing whitespace, which is also the result for the command with a
\* trailing ` $@`
Appended ==
    /\ call.result.ok
    /\ call.result.text = rstrip(call.cmd \o <<" ">> \o join(call.args))
    /\ call.result = interpolate_args(call.cmd \o <<" ", ARG_PREFIX, ARG_REST>>, call.args)

\* C24 as stated: for every command that contains no placeholder and every
\* argument list, interpolate_args returns the command followed by one space
\* and the space-joined arguments, with trailing whitespace removed, the
\* same result as for that command with a trailing ` $@`.
CexC24 ==
    Interpolated /\ call.tokens = <<>> /\ ~ContainsPlaceholder(call.cmd) => Appended

\* C24 amended: the same, for every command that contains no placeholder
\* and neither of the forms `{args}` and `{args:`, which interpolate_args
\* rewrites to `${@}` and `${@:-` before it looks for placeholders.
ThmC24 ==
    Interpolated /\ call.tokens = <<>> /\ ~ContainsPlaceholder(call.cmd)
        /\ ~ContainsText(call.cmd, <<"{", "a", "r", "g", "s", "}">>)
        /\ ~ContainsText(call.cmd, <<"{", "a", "r", "g", "s", ":">>)
    => Appended

\* `a $` with the arguments `$@` and b gives `a $ $@ b`: the argument is not
\* read as a placeholder
WitC24 ==
    /\ Interpolated
    /\ call.cmd = <<"a", " ", "$">>
    /\ call.args = <<<<"$", "@">>, <<"b">>>>
    /\ call.result.ok
    /\ call.result.text = <<"a", " ", "$", " ", "$", "@", " ", "b">>

\* ------------------------------------------------------------------------
\* C25: missing arguments and defaults
\* ------------------------------------------------------------------------

\* a positional placeholder beyond the arguments that has no default
Insufficient(phs, a) ==
    \E k \in DOMAIN phs :
        phs[k].kind = "pos" /\ phs[k].n > Len(a) /\ ~phs[k].hasDefault

\* C25: a positional placeholder whose index exceeds the number of arguments
\* raises IndexError when it has no default and is replaced by its default
\* when it has one; ${@:-default} is replaced by the default exactly when no
\* unconsumed argument remains; an argument that is present but empty is
\* used instead of the default.
ThmC25 ==
    Interpolated /\ call.tokens # <<>> =>
        /\ call.result.ok = ~Insufficient(call.tokens, call.args)
        /\ call.result.ok =>
              call.result.text =
                 rstrip(call.first \o Substituted(call.tokens, call.args, DOMAIN call.args))

\* `ls ${1:-foo} ${@:-foo}` with one empty argument gives `ls  foo`: the
\* empty argument is used, and the rest, which it leaves empty, is the default
WitC25 ==
    /\ Interpolated
    /\ call.tokens = <<Placeholder("pos", 1, TRUE, TRUE, <<"f", "o", "o">>),
                       Placeholder("rest", 0, TRUE, TRUE, <<"f", "o", "o">>)>>
    /\ call.args = <<<<>>>>
    /\ call.result.ok
    /\ call.result.text = <<"l", "s", " ", " ", "f", "o", "o">>

\* ------------------------------------------------------------------------
\* Calls of glob_names (searchers.py)
\* ------------------------------------------------------------------------

\* how many names and how many patterns a call is given
MaxNames == 3
MaxPatterns == 3

GlobNameSet == {<<"a", "b">>, <<"a", "c">>, <<"b">>}

GlobPatternSet ==
    {<<"a", "*">>, <<"!", "a", "*">>, <<"*">>, <<"!", "*">>, <<"?">>,
     <<"!", "a", "c">>, <<"[", "a", "c", "]">>}

\* glob_names(names, patterns) is called
GlobNames ==
    /\ call.fn = "glob_names"
    /\ call.state = "called"
    /\ call' = [call EXCEPT !.state = "returned",
                            !.result = glob_names(call.names, call.patterns)]
    /\ UNCHANGED <<ENV, temps>>
    /\ UNCHANGED <<args, tasks, status, exit, stack, procs, processes, atexit, retval,
                   cc, cleanup, cwd>>

InitGlob ==
    /\ \E n \in Seqs(GlobNameSet, 0, MaxNames), ps \in Seqs(GlobPatternSet, 0, MaxPatterns) :
         call = [fn |-> "glob_names", state |-> "called", names |-> n, patterns |-> ps,
                 result |-> <<>>]
    /\ ENV = <<>>
    /\ temps = <<>>
    /\ tasks = <<>>
    /\ args = [dry_run |-> FALSE, pre |-> FALSE, post |-> FALSE, task |-> Task]
    /\ status = "start"
    /\ exit = [code |-> 0, cause |-> "none"]
    /\ stack = <<>>
    /\ procs = <<>>
    /\ processes = <<>>
    /\ atexit = 0
    /\ retval = 0
    /\ cc = [kind |-> "none", value |-> <<>>]
    /\ cleanup = [pc |-> "idle", i |-> 1, log |-> <<>>, exiting |-> FALSE]
    /\ cwd = "curr"

SpecGlob == InitGlob /\ [][GlobNames]_vars

\* ------------------------------------------------------------------------
\* C30: the names glob_names returns
\* ------------------------------------------------------------------------

\* the pattern is an exclusion
IsExclusion(pattern) == pattern # <<>> /\ pattern[1] = GLOB_EXCLUDE

\* the pattern, without the mark of an exclusion, matches the name
Matches(name, pattern) ==
    fnmatch(name, IF IsExclusion(pattern) THEN Tail(pattern) ELSE pattern)

\* the last pattern that matches the name is not an exclusion
Wanted(name, patterns) ==
    \E k \in DOMAIN patterns :
        /\ Matches(name, patterns[k])
        /\ ~IsExclusion(patterns[k])
        /\ \A l \in (k + 1)..Len(patterns) : ~Matches(name, patterns[l])

\* position of the first occurrence of name in names
FirstAt(names, name) == CHOOSE k \in DOMAIN names :
    names[k] = name /\ \A l \in 1..(k - 1) : names[l] # name

\* C30: glob_names(names, patterns) returns, in the order of names and
\* without duplicates, exactly the names for which the last pattern of the
\* list that matches the name is not an exclusion; a name that no pattern
\* matches is left out.
ThmC30 ==
    call.fn = "glob_names" /\ call.state = "returned" =>
        LET r == call.result
        IN  /\ {r[k] : k \in DOMAIN r} =
                  {call.names[k] : k \in {l \in DOMAIN call.names :
                                            Wanted(call.names[l], call.patterns)}}
            /\ \A i, j \in DOMAIN r :
                  i < j => FirstAt(call.names, r[i]) < FirstAt(call.names, r[j])

\* the names ab, b, ab with the patterns !*, a*, !ac: the last pattern that
\* matches ab includes it, the only one that matches b excludes it, and ab
\* is returned once
WitC30 ==
    /\ call.fn = "glob_names"
    /\ call.state = "returned"
    /\ call.names = <<<<"a", "b">>, <<"b">>, <<"a", "b">>>>
    /\ call.patterns = <<<<"!", "*">>, <<"a", "*">>, <<"!", "a", "c">>>>
    /\ call.result = <<<<"a", "b">>>>

\* ------------------------------------------------------------------------
\* C26, C27: a run after check_cycles has returned
\* ------------------------------------------------------------------------

\* a task of Tasks is the task of two active calls
Reentered ==
    \E i, j \in DOMAIN stack :
        i < j /\ Len(stack[i].ref) = 1 /\ stack[i].ref = stack[j].ref

\* the calls nest until the interpreter gives up
Unbounded == status = "raised" /\ exit.cause = "RecursionError"

\* C26: when check_cycles has returned without error and hooks are
\* disabled, the run terminates: composite dispatch never enters a task
\* that is already on the call stack, whether the steps name tasks directly,
\* through wildcards, exclusions or pattern lists.
CexC26 ==
    cc.kind = "order" /\ ~args.pre /\ ~args.post => ~Reentered /\ ~Unbounded

\* C27: when check_cycles has returned without error and --pre or --post is
\* enabled, the run terminates: a hook never leads back, through its own
\* dependencies or composite dispatch, to the task it belongs to.
CexC27 ==
    cc.kind = "order" /\ (args.pre \/ args.post) => ~Unbounded /\ ~Reentered

\* ------------------------------------------------------------------------
\* C28: the command text of a hook
\* ------------------------------------------------------------------------

\* the children spawned for the own command of a pre- or post-hook
HookProcs ==
    {k \in DOMAIN procs :
        /\ procs[k].path # <<>>
        /\ procs[k].path[Len(procs[k].path)][1] \in {"pre", "post"}}

\* the tasks that are hooks of task a
HookTasks == {k \in DOMAIN tasks : tasks[k].name \in PreNames \cup PostNames}

\* C28: the command text that a pre- or post-hook hands to the shell is
\* built only from the cmd of the root override (which is empty), the cmd of
\* the hook task and the resolved args (none in these runs); it never
\* contains the interpolated command text of the task the hook belongs to.
CexC28 ==
    \A k \in HookProcs :
        \E h \in HookTasks :
            procs[k].cmd = interpolate_args(Task.cmd \o tasks[h].cmd, <<>>).text

\* ------------------------------------------------------------------------
\* C29: siblings do not change each other's values
\* ------------------------------------------------------------------------

\* the values of a task that a resolution passes on
Scope(t) ==
    [args |-> t.args, cwd |-> t.cwd, env |-> t.env, _env |-> t._env,
     keep_going |-> t.keep_going, parallel |-> t.parallel]

\* the step by which the call f was made: "dep", "run", "pre" or "post"
StepKind(f) == f.path[Len(f.path)][1]

\* the trailing tokens of a composite step
Trailing(task) == SubSeq(split(task.cmd), 2, Len(split(task.cmd)))

\* C29: the args, env, cwd, keep_going and parallel of every active call are
\* those that its task and its override resolve to, and the override of a
\* nested call is what its caller resolved to (with the trailing tokens of
\* the step added on dispatch), however many dependencies of the caller
\* have run before: a dependency that has run leaves no trace in the values
\* of a later sibling or of the caller's own command.
ThmC29 ==
    \A i \in DOMAIN stack :
        /\ stack[i].pc # "start" =>
              Scope(stack[i].resolved) = Scope(Resolve(stack[i].task, stack[i].override))
        /\ i > 1 =>
              Scope(stack[i].override) =
                 IF StepKind(stack[i]) = "run"
                 THEN [Scope(stack[i - 1].resolved) EXCEPT
                         !.args = @ \o Trailing(stack[i - 1].task)]
                 ELSE Scope(stack[i - 1].resolved)

\* the second dependency of a task without keep_going is resolved after the
\* first, a `+` step whose command failed, has returned: it is resolved
\* without keep_going
WitC29 ==
    /\ Len(stack) >= 3
    /\ StepKind(Top) = "dep"
    /\ Top.path[Len(Top.path)][2] = 2
    /\ Top.pc = "shell"
    /\ ~Top.resolved.keep_going
    /\ stack[Len(stack) - 1].task.depends[1].keep_going
    /\ \E k \in DOMAIN procs :
         procs[k].keep_going /\ procs[k].state = "exited" /\ procs[k].code # 0

====
